---- MODULE Spec2Model ----
(***************************************************************************)
(* A model of the redaction engine of stremovskyy/recorder (scrubber.go):  *)
(* the rule / matcher / transform data model, the recursive traversal      *)
(* scrubValue, the rule loop applyRules, the default rule set and the      *)
(* entry points Scrub, ScrubMap, ScrubJSON and ScrubStringMap.             *)
(*                                                                         *)
(* A text (a Go string, a []rune, the bytes of a JSON document) is the     *)
(* sequence of its Unicode code points, each a number below 256: 65 is     *)
(* "A", 97 is "a", 34 is the double quote.  A comment beside a literal     *)
(* gives the text it stands for.                                           *)
(***************************************************************************)
EXTENDS Integers, Sequences, FiniteSets, TLC

VARIABLES
    scrubber,   \* the *Scrubber under use: NilScrubber or [rules, defaultReplacement, includeDefaults]
    options,    \* the options the Scrubber was built with
    pc,         \* position of the caller: "init", "ready", "called", "wroteInput", "wroteOutput", "again"
    call,       \* the function last called: "none", "Scrub", "ScrubMap", "ScrubJSON", "ScrubStringMap", "MaskString"
    params,     \* the parameters of the last call besides its argument
    input,      \* the argument of the last call, as the caller's memory holds it now
    output,     \* the value the last call returned, as memory holds it now
    err,        \* the error the last call returned: "nil" or an error text
    argSnap,    \* deep copy of the argument taken when the call was made
    outSnap,    \* deep copy of the result taken when the call returned
    evals,      \* the calls of applyRules the last call made: [ctx, applied]
    routines,   \* the goroutines that share the Scrubber, each with the call it is in
    recorder,   \* the baseRecorder: [payloadScrubber, tagScrubber]; its storage is the variable storage
    storage,    \* the Storage behind the recorder: [kind, files, index, saveErr]
    rec,        \* the last call on the recorder: its arguments, what it returned, what it invoked
    inMemory,   \* the inMemoryMetrics: [counters, gauges, histograms], each a map from key to value
    walk        \* a traversal under way, step by step: [heap, stack, seen]

scrubVars == <<scrubber, options, pc, call, params, input, output, err, argSnap, outSnap, evals>>
recVars == <<recorder, storage, rec>>
vars == <<scrubVars, routines, recVars, inMemory, walk>>

\* What a single caller of the Scrubber leaves alone.
others == <<routines, recVars, inMemory, walk>>

\* No recorder is in use.
NoRecorder == recorder = <<>> /\ storage = <<>> /\ rec = <<>> /\ inMemory = <<>> /\ walk = <<>>

-----------------------------------------------------------------------------
(* Texts *)

\* unicode.ToLower on one code point below 256.
ToLowerRune(c) ==
  IF (c >= 65 /\ c <= 90) \/ (c >= 192 /\ c <= 222 /\ c # 215) THEN c + 32 ELSE c

\* strings.ToLower
ToLower(s) == [i \in 1..Len(s) |-> ToLowerRune(s[i])]

\* unicode.IsSpace on a code point below 256: \t \n \v \f \r, space, NEL, NBSP.
IsSpace(c) == c \in {9, 10, 11, 12, 13, 32, 133, 160}

RECURSIVE TrimLeft(_)
TrimLeft(s) ==
  IF s # <<>> /\ IsSpace(Head(s)) THEN TrimLeft(Tail(s)) ELSE s

RECURSIVE TrimRight(_)
TrimRight(s) ==
  IF s # <<>> /\ IsSpace(s[Len(s)]) THEN TrimRight(SubSeq(s, 1, Len(s) - 1)) ELSE s

\* strings.TrimSpace and bytes.TrimSpace
TrimSpace(s) == TrimRight(TrimLeft(s))

\* strings.Repeat(s, count) for count >= 0
Repeat(s, count) == [i \in 1..(count * Len(s)) |-> s[((i - 1) % Len(s)) + 1]]

\* Order of two texts by code points (the order of sorted map keys).
RECURSIVE TextLess(_, _)
TextLess(a, b) ==
  IF b = <<>> THEN FALSE
  ELSE IF a = <<>> THEN TRUE
  ELSE IF Head(a) # Head(b) THEN Head(a) < Head(b)
  ELSE TextLess(Tail(a), Tail(b))

\* The texts of a finite set in increasing order.
RECURSIVE SortedTexts(_)
SortedTexts(S) ==
  IF S = {} THEN <<>>
  ELSE LET least == CHOOSE a \in S : \A b \in S \ {a} : TextLess(a, b)
       IN <<least>> \o SortedTexts(S \ {least})

\* Decimal text of a natural number (fmt's %d and %v, strconv.Itoa).
RECURSIVE Itoa(_)
Itoa(n) == IF n < 10 THEN <<48 + n>> ELSE Append(Itoa(n \div 10), 48 + (n % 10))

\* fmt.Sprintf("[%d]", i) for a Go index i (0-based).
IndexSegment(i) == <<91>> \o Itoa(i) \o <<93>>

\* strings.Join(parts, sep)
RECURSIVE Join(_, _)
Join(parts, sep) ==
  IF parts = <<>> THEN <<>>
  ELSE IF Len(parts) = 1 THEN parts[1]
  ELSE parts[1] \o sep \o Join(Tail(parts), sep)

-----------------------------------------------------------------------------
(* Values: Go's `any`, by dynamic type.  A container carries the identity   *)
(* `id` of its storage: the caller's containers are identified by their     *)
(* position in the argument, every container that a call allocates (make)   *)
(* has the identity Fresh: a position no argument has, as -1 is no code     *)
(* point.  A nil map or slice is the empty container.                       *)

Fresh == << <<-1>> >>

Nil == [t |-> "nil"]
Str(s) == [t |-> "string", s |-> s]
Bool(b) == [t |-> "bool", b |-> b]
Num(n) == [t |-> "float64", n |-> n]
Obj(id, m) == [t |-> "map[string]any", id |-> id, m |-> m]
StrMap(id, m) == [t |-> "map[string]string", id |-> id, sm |-> m]
ListMap(id, m) == [t |-> "map[string][]string", id |-> id, lm |-> m]
StrList(id, l) == [t |-> "[]string", id |-> id, sl |-> l]
List(id, l) == [t |-> "[]any", id |-> id, al |-> l]
\* a container of a type the traversal does not know, such as []int
Ints(id, l) == [t |-> "[]int", id |-> id, il |-> l]

MapTypes == {"map[string]any", "map[string]string", "map[string][]string"}
ListTypes == {"[]string", "[]any", "[]int"}
IsContainer(v) == v.t \in MapTypes \cup ListTypes

\* The elements of a container as values: by key for a map, by index for a list.
Elements(v) ==
  CASE v.t = "map[string]any" -> v.m
    [] v.t = "map[string]string" -> [k \in DOMAIN v.sm |-> Str(v.sm[k])]
    [] v.t = "map[string][]string" -> v.lm
    [] v.t = "[]string" -> [i \in 1..Len(v.sl) |-> Str(v.sl[i])]
    [] v.t = "[]any" -> v.al
    [] v.t = "[]int" -> [i \in 1..Len(v.il) |-> Num(v.il[i])]

\* fmt.Sprint(v): the %v rendering of one operand; a map prints as
\* map[k:v k:v] with its keys sorted, a slice as [v v].
RECURSIVE Sprint(_)
RECURSIVE SprintEntries(_, _)

SprintEntries(v, keys) ==
  [i \in 1..Len(keys) |-> keys[i] \o <<58>> \o Sprint(Elements(v)[keys[i]])]

Sprint(v) ==
  CASE v.t = "nil" -> <<60, 110, 105, 108, 62>>                       \* <nil>
    [] v.t = "string" -> v.s
    [] v.t = "bool" -> IF v.b THEN <<116, 114, 117, 101>>               \* true
                       ELSE <<102, 97, 108, 115, 101>>                  \* false
    [] v.t = "float64" -> Itoa(v.n)
    [] v.t \in MapTypes ->
         <<109, 97, 112, 91>>                                           \* map[
         \o Join(SprintEntries(v, SortedTexts(DOMAIN Elements(v))), <<32>>) \o <<93>>
    [] v.t \in ListTypes ->
         <<91>> \o Join([i \in 1..Len(Elements(v)) |-> Sprint(Elements(v)[i])], <<32>>) \o <<93>>

\* toString: the text a value is coerced to inside a string-typed container.
\* A rendering that puts every value between double quotes.
toStringQuoted(value) ==
  IF value.t = "nil" THEN <<>> ELSE <<34>> \o Sprint(value) \o <<34>>

toString(value) ==
  IF value.t = "nil" THEN <<>>
  ELSE IF value.t = "string" THEN value.s
  ELSE Sprint(value)

\* A list of the one text whatever length is asked for.
filledOnce(text, desiredLen) == StrList(Fresh, <<text>>)

\* make([]string, n) with every element set to text; []string{text} when n <= 0.
filled(text, desiredLen) ==
  IF desiredLen <= 0 THEN StrList(Fresh, <<text>>)
  ELSE StrList(Fresh, [i \in 1..desiredLen |-> text])

\* toStringSlice: the string list a rule's replacement is coerced to inside a
\* string-list map; desiredLen is the length of the list it replaces.
toStringSlice(value, desiredLen) ==
  IF value.t = "nil" THEN StrList(Fresh, <<>>)
  ELSE IF value.t = "[]string" THEN StrList(Fresh, value.sl)
  ELSE IF value.t = "[]any" THEN StrList(Fresh, [i \in 1..Len(value.al) |-> toString(value.al[i])])
  ELSE filled(toString(value), desiredLen)

\* FieldContext{Path, Key, Value}
FieldContext(path, key, value) == [Path |-> path, Key |-> key, Value |-> value]

-----------------------------------------------------------------------------
(* Matchers: FieldMatcher values.  NilMatcher is the nil function value.    *)

NilMatcher == [k |-> "nil"]

\* *regexp.Regexp: nil, or the compiled pattern ^lit$ of a quoted literal.
NilRegexp == [re |-> "nil"]
LiteralRegexp(lit) == [re |-> "literal", lit |-> lit]
RegexpMatchString(re, text) == text = re.lit

\* The key list of MatchKeyInsensitive after trimming, dropping blanks and lower-casing.
RECURSIVE normalizeKeys(_)
normalizeKeys(keys) ==
  IF keys = <<>> THEN <<>>
  ELSE (IF TrimSpace(Head(keys)) = <<>> THEN <<>> ELSE <<ToLower(TrimSpace(Head(keys)))>>)
       \o normalizeKeys(Tail(keys))

MatchKeyInsensitive(keys) == [k |-> "MatchKeyInsensitive", normalized |-> normalizeKeys(keys)]
MatchValueRegexp(re) == [k |-> "MatchValueRegexp", re |-> re]

\* strings.Split(s, "."): acc is the segment being read.
RECURSIVE splitDots(_, _)
splitDots(s, acc) ==
  IF s = <<>> THEN <<acc>>
  ELSE IF Head(s) = 46 THEN <<acc>> \o splitDots(Tail(s), <<>>)
  ELSE splitDots(Tail(s), Append(acc, Head(s)))

\* The pattern list of MatchPathInsensitive: each path trimmed, dropped when
\* blank, split at the dots, each segment trimmed.
RECURSIVE pathPatterns(_)
pathPatterns(paths) ==
  IF paths = <<>> THEN <<>>
  ELSE (IF TrimSpace(Head(paths)) = <<>> THEN <<>>
        ELSE << [i \in 1..Len(splitDots(TrimSpace(Head(paths)), <<>>)) |->
                   TrimSpace(splitDots(TrimSpace(Head(paths)), <<>>)[i])] >>)
       \o pathPatterns(Tail(paths))

\* strings.EqualFold on code points below 256.
EqualFold(a, b) == ToLower(a) = ToLower(b)

\* A comparison that lets a pattern match the paths it is a prefix of.
pathMatchesPrefix(path, pattern) ==
  /\ Len(path) >= Len(pattern)
  /\ \A i \in 1..Len(pattern) : pattern[i] = <<42>> \/ EqualFold(path[i], pattern[i])

pathMatches(path, pattern) ==
  /\ Len(path) = Len(pattern)
  /\ \A i \in 1..Len(pattern) : pattern[i] = <<42>> \/ EqualFold(path[i], pattern[i])       \* 42 is '*'

MatchPathInsensitive(paths) == [k |-> "MatchPathInsensitive", patterns |-> pathPatterns(paths)]

\* A MatchAll that a nil matcher makes false.
matchAllStrict(matchers, accepted) ==
  \A i \in 1..Len(matchers) : matchers[i].k # "nil" /\ accepted[i]

\* The loop of MatchAll, accepted[i] being matchers[i](ctx) for the matchers
\* that are not nil.
matchAll(matchers, accepted) ==
  \A i \in 1..Len(matchers) : matchers[i].k = "nil" \/ accepted[i]

MatchAny(matchers) == [k |-> "MatchAny", matchers |-> matchers]
MatchAll(matchers) == [k |-> "MatchAll", matchers |-> matchers]
MatchNot(matcher) == [k |-> "MatchNot", matcher |-> matcher]

\* The call matcher(ctx) of a non-nil matcher.
RECURSIVE Matches(_, _)
Matches(matcher, ctx) ==
  CASE matcher.k = "MatchKeyInsensitive" ->
         \E i \in 1..Len(matcher.normalized) : ToLower(ctx.Key) = matcher.normalized[i]
    [] matcher.k = "MatchValueRegexp" ->
         IF matcher.re.re = "nil" \/ ctx.Value.t = "nil" THEN FALSE
         ELSE RegexpMatchString(matcher.re, Sprint(ctx.Value))
    [] matcher.k = "MatchAny" ->
         \E i \in 1..Len(matcher.matchers) :
            matcher.matchers[i].k # "nil" /\ Matches(matcher.matchers[i], ctx)
    [] matcher.k = "MatchAll" ->
         matchAll(matcher.matchers,
                  [i \in 1..Len(matcher.matchers) |->
                     matcher.matchers[i].k # "nil" /\ Matches(matcher.matchers[i], ctx)])
    [] matcher.k = "MatchPathInsensitive" ->
         \E i \in 1..Len(matcher.patterns) : pathMatches(ctx.Path, matcher.patterns[i])
    [] matcher.k = "MatchNot" ->
         IF matcher.matcher.k = "nil" THEN FALSE ELSE ~Matches(matcher.matcher, ctx)

-----------------------------------------------------------------------------
(* Transforms: ScrubFunc values.  NilScrubFunc is the nil function value.   *)

NilScrubFunc == [f |-> "nil"]

\* The largest int, with int taken 32 bits wide (GOARCH=386, arm).
MaxInt == 2147483647

\* a + b on non-negative ints: the sum wraps around past MaxInt.
IntAdd(a, b) ==
  IF a > MaxInt - b THEN (a - MaxInt - 1) + (b - MaxInt - 1) ELSE a + b

\* What a call returns when the Go code panics inside it.
Panic == [t |-> "panic"]

ReplaceWith(replacement) == [f |-> "ReplaceWith", replacement |-> replacement]
RemoveValue == [f |-> "RemoveValue"]
\* A ScrubFunc written by the caller that hands back the value it was given.
KeepValue == [f |-> "func(ctx FieldContext) any { return ctx.Value }"]

\* MaskString(mask, keepStart, keepEnd): the variables its closure captures.
MaskString(mask, keepStart, keepEnd) ==
  [f |-> "MaskString",
   maskStr |-> <<IF mask = 0 THEN 42 ELSE mask>>,                     \* 42 is '*'
   keepStart |-> IF keepStart < 0 THEN 0 ELSE keepStart,
   keepEnd |-> IF keepEnd < 0 THEN 0 ELSE keepEnd]

\* The closure of MaskString from `runes := []rune(value)` on, value not empty:
\* runes[:keepStart] panics when keepStart > length, strings.Repeat panics on
\* a negative count.
maskRunes(fn, runes, length) ==
  IF IntAdd(fn.keepStart, fn.keepEnd) >= length THEN Str(Repeat(fn.maskStr, length))
  ELSE IF fn.keepStart > length \/ length - fn.keepStart - fn.keepEnd < 0 THEN Panic
  ELSE Str(SubSeq(runes, 1, fn.keepStart)
           \o Repeat(fn.maskStr, length - fn.keepStart - fn.keepEnd)
           \o SubSeq(runes, length - fn.keepEnd + 1, length))

\* The closure of MaskString from `value := fmt.Sprint(ctx.Value)` on.
maskValue(fn, value) ==
  IF value = <<>> THEN Str(value) ELSE maskRunes(fn, value, Len(value))

\* utf8.RuneError, the code point U+FFFD.
RuneError == 65533

\* PreserveLengthReplacement(replacement): the variable its closure captures.
PreserveLengthReplacement(replacement) ==
  [f |-> "PreserveLengthReplacement",
   maskSource |-> IF replacement = <<>> THEN <<42>> ELSE replacement]

\* maskRune: the first code point of maskSource, '*' in place of RuneError.
maskRuneOf(maskSource) ==
  IF Head(maskSource) = RuneError THEN <<42>> ELSE <<Head(maskSource)>>

\* A closure that masks every value rune by rune, nil and the empty text too.
preserveLengthOfAll(fn, isNil, value) ==
  Str(Repeat(maskRuneOf(fn.maskSource), Len(value)))

\* The closure of PreserveLengthReplacement, value being fmt.Sprint(ctx.Value).
preserveLength(fn, isNil, value) ==
  IF isNil \/ value = <<>> THEN Str(fn.maskSource)
  ELSE Str(Repeat(maskRuneOf(fn.maskSource), Len(value)))

\* The call rule.Apply(ctx) of a non-nil transform.
Transform(fn, ctx) ==
  CASE fn.f = "ReplaceWith" -> Str(fn.replacement)
    [] fn.f = "RemoveValue" -> Nil
    [] fn.f = "MaskString" ->
         IF ctx.Value.t = "nil" THEN Nil ELSE maskValue(fn, Sprint(ctx.Value))
    [] fn.f = KeepValue.f -> ctx.Value
    [] fn.f = "PreserveLengthReplacement" ->
         preserveLength(fn, ctx.Value.t = "nil", Sprint(ctx.Value))

-----------------------------------------------------------------------------
(* Rules and the Scrubber *)

Rule(name, match, apply, continue) ==
  [Name |-> name, Match |-> match, Apply |-> apply, Continue |-> continue]

NewRule(name, matcher, scrub) == Rule(name, matcher, scrub, FALSE)

DefaultReplacement == <<91, 82, 69, 68, 65, 67, 84, 69, 68, 93>>          \* [REDACTED]

SensitiveKeys ==
  << <<112, 97, 115, 115, 119, 111, 114, 100>>,                           \* password
     <<112, 97, 115, 115>>,                                               \* pass
     <<112, 97, 115, 115, 119, 100>>,                                     \* passwd
     <<115, 101, 99, 114, 101, 116>>,                                     \* secret
     <<116, 111, 107, 101, 110>>,                                         \* token
     <<97, 117, 116, 104>>,                                               \* auth
     <<97, 117, 116, 104, 111, 114, 105, 122, 97, 116, 105, 111, 110>>,   \* authorization
     <<97, 112, 105, 95, 107, 101, 121>>,                                 \* api_key
     <<97, 112, 105, 107, 101, 121>>,                                     \* apikey
     <<97, 99, 99, 101, 115, 115, 95, 116, 111, 107, 101, 110>>,          \* access_token
     <<114, 101, 102, 114, 101, 115, 104, 95, 116, 111, 107, 101, 110>>,  \* refresh_token
     <<115, 101, 115, 115, 105, 111, 110>>,                               \* session
     <<99, 111, 111, 107, 105, 101>>,                                     \* cookie
     <<115, 101, 116, 45, 99, 111, 111, 107, 105, 101>> >>                \* set-cookie

\* A default rule deaf to the configured text: always [REDACTED].
defaultRulesFixedText(replacement) ==
  << Rule("default-sensitive", MatchKeyInsensitive(SensitiveKeys), ReplaceWith(DefaultReplacement), FALSE) >>

defaultSensitiveRules(replacement) ==
  << Rule("default-sensitive", MatchKeyInsensitive(SensitiveKeys), ReplaceWith(replacement), FALSE) >>

\* A nil *Scrubber.
NilScrubber ==
  [nil |-> TRUE, rules |-> <<>>, defaultReplacement |-> <<>>, includeDefaults |-> FALSE]

\* Options (ScrubberOption values); NilOption is the nil function value.
NilOption == [o |-> "nil"]
WithRules(rules) == [o |-> "WithRules", rules |-> rules]
WithoutDefaultRules == [o |-> "WithoutDefaultRules"]
WithDefaultReplacement(replacement) == [o |-> "WithDefaultReplacement", replacement |-> replacement]

\* opt(s): the effect of one option on the Scrubber under construction.
applyOption(opt, s) ==
  CASE opt.o = "WithRules" ->
         IF Len(opt.rules) = 0 THEN s ELSE [s EXCEPT !.rules = s.rules \o opt.rules]
    [] opt.o = "WithoutDefaultRules" -> [s EXCEPT !.includeDefaults = FALSE]
    [] opt.o = "WithDefaultReplacement" ->
         IF opt.replacement = <<>> THEN s ELSE [s EXCEPT !.defaultReplacement = opt.replacement]

\* The loop over opts of NewScrubber.
RECURSIVE applyOptions(_, _)
applyOptions(opts, s) ==
  IF opts = <<>> THEN s
  ELSE applyOptions(Tail(opts), IF Head(opts).o # "nil" THEN applyOption(Head(opts), s) ELSE s)

\* An end of NewScrubber that puts the default rules before the rules of the
\* options.
withDefaultsFirst(s) ==
  IF s.includeDefaults
  THEN [s EXCEPT !.rules = defaultSensitiveRules(s.defaultReplacement) \o s.rules]
  ELSE s

\* The end of NewScrubber: the default rules go after the rules of the options.
withDefaults(s) ==
  IF s.includeDefaults
  THEN [s EXCEPT !.rules = s.rules \o defaultSensitiveRules(s.defaultReplacement)]
  ELSE s

NewScrubber(opts) ==
  withDefaults(applyOptions(opts, [nil |-> FALSE, rules |-> <<>>,
                                   defaultReplacement |-> DefaultReplacement,
                                   includeDefaults |-> TRUE]))

\* An AddRules that puts the rules in front of the list.
addRulesInFront(s, rules) ==
  IF s.nil \/ Len(rules) = 0 THEN s ELSE [s EXCEPT !.rules = rules \o s.rules]

\* s.AddRules(rules...)
AddRules(s, rules) ==
  IF s.nil \/ Len(rules) = 0 THEN s ELSE [s EXCEPT !.rules = s.rules \o rules]

-----------------------------------------------------------------------------
(* Rule application at one field, and the traversal *)

\* A loop that passes over a rule without matcher.
skipsNilMatcher(rule, ctx) ==
  rule.Match.k = "nil" \/ ~Matches(rule.Match, ctx) \/ rule.Apply.f = "nil"

\* The two `continue` statements of the loop of applyRules: the matcher is not
\* nil and rejects the field, or the rule has no transform.
skipsRule(rule, ctx) ==
  (rule.Match.k # "nil" /\ ~Matches(rule.Match, ctx)) \/ rule.Apply.f = "nil"

\* The loop of applyRules from rule i on: current is the working value, matched
\* tells whether a rule was applied; trace lists the applied rules, each with
\* the value it saw and the value it gave.
RECURSIVE applyRulesFrom(_, _, _, _, _, _)
RECURSIVE ruleApplied(_, _, _, _, _, _)

\* A loop that ends at the first applied rule, whatever its chain flag.
ruleAppliedAndStopped(rules, i, ctx, current, next, trace) ==
  [value |-> next, ok |-> TRUE,
   trace |-> Append(trace, [rule |-> i, saw |-> current, gave |-> next])]

\* The end of the loop body: rule i was applied to current and gave next.
ruleApplied(rules, i, ctx, current, next, trace) ==
  IF ~rules[i].Continue
  THEN [value |-> next, ok |-> TRUE,
        trace |-> Append(trace, [rule |-> i, saw |-> current, gave |-> next])]
  ELSE applyRulesFrom(rules, i + 1, ctx, next, TRUE,
                      Append(trace, [rule |-> i, saw |-> current, gave |-> next]))

\* A loop that a rule without transform ends when its matcher accepts the
\* field and its chain flag is false.
applyRulesInertStops(rules, i, ctx, current, matched, trace) ==
  IF i > Len(rules)
  THEN [value |-> IF matched THEN current ELSE Nil, ok |-> matched, trace |-> trace]
  ELSE IF rules[i].Match.k # "nil" /\ ~Matches(rules[i].Match, FieldContext(ctx.Path, ctx.Key, current))
  THEN applyRulesFrom(rules, i + 1, ctx, current, matched, trace)
  ELSE IF rules[i].Apply.f = "nil"
  THEN IF rules[i].Continue
       THEN applyRulesFrom(rules, i + 1, ctx, current, matched, trace)
       ELSE [value |-> IF matched THEN current ELSE Nil, ok |-> matched, trace |-> trace]
  ELSE ruleApplied(rules, i, ctx, current,
                   Transform(rules[i].Apply, FieldContext(ctx.Path, ctx.Key, current)), trace)

applyRulesFrom(rules, i, ctx, current, matched, trace) ==
  IF i > Len(rules)
  THEN [value |-> IF matched THEN current ELSE Nil, ok |-> matched, trace |-> trace]
  ELSE IF skipsRule(rules[i], FieldContext(ctx.Path, ctx.Key, current))
  THEN applyRulesFrom(rules, i + 1, ctx, current, matched, trace)
  ELSE ruleApplied(rules, i, ctx, current,
                   Transform(rules[i].Apply, FieldContext(ctx.Path, ctx.Key, current)), trace)

\* s.applyRules(ctx): [value, ok], and the trace of the applied rules.
applyRules(s, ctx) == applyRulesFrom(s.rules, 1, ctx, ctx.Value, FALSE, <<>>)

\* A loop body without the `continue`: the field is traversed whether or not
\* a rule was applied to it.
scrubbedAnyway(r, scrubbed) == scrubbed

\* `if replaced, ok := s.applyRules(ctx); ok { ... = replaced; continue }`,
\* else the scrubbed value.
replacedOr(r, scrubbed) == IF r.ok THEN r.value ELSE scrubbed

\* The same in a string-list map: the replacement is coerced to a string list.
replacedSliceOr(r, desiredLen, clonedVals) ==
  IF r.ok THEN toStringSlice(r.value, desiredLen) ELSE clonedVals

RECURSIVE scrubValue(_, _, _)
scrubValue(s, value, path) ==
  CASE value.t = "map[string]any" ->
         Obj(Fresh,
             [k \in DOMAIN value.m |->
                replacedOr(applyRules(s, FieldContext(Append(path, k), k, value.m[k])),
                           scrubValue(s, value.m[k], Append(path, k)))])
    [] value.t = "map[string]string" ->
         StrMap(Fresh,
             [k \in DOMAIN value.sm |->
                toString(replacedOr(applyRules(s, FieldContext(Append(path, k), k, Str(value.sm[k]))),
                                    scrubValue(s, Str(value.sm[k]), Append(path, k))))])
    [] value.t = "map[string][]string" ->
         ListMap(Fresh,
             [k \in DOMAIN value.lm |->
                replacedSliceOr(
                  applyRules(s, FieldContext(Append(path, k), k, value.lm[k])),
                  Len(value.lm[k].sl),
                  StrList(Fresh,
                          [i \in 1..Len(value.lm[k].sl) |->
                             toString(scrubValue(s, Str(value.lm[k].sl[i]),
                                                 Append(Append(path, k), IndexSegment(i - 1))))]))])
    [] value.t = "[]string" ->
         StrList(Fresh,
             [i \in 1..Len(value.sl) |->
                toString(replacedOr(
                  applyRules(s, FieldContext(Append(path, IndexSegment(i - 1)),
                                             IndexSegment(i - 1), Str(value.sl[i]))),
                  scrubValue(s, Str(value.sl[i]), Append(path, IndexSegment(i - 1)))))])
    [] value.t = "[]any" ->
         List(Fresh, [i \in 1..Len(value.al) |-> scrubValue(s, value.al[i], path)])
    [] OTHER -> value

\* The field contexts scrubValue builds for the fields of value itself.
fieldContexts(value, path) ==
  CASE value.t = "map[string]any" ->
         {FieldContext(Append(path, k), k, value.m[k]) : k \in DOMAIN value.m}
    [] value.t = "map[string]string" ->
         {FieldContext(Append(path, k), k, Str(value.sm[k])) : k \in DOMAIN value.sm}
    [] value.t = "map[string][]string" ->
         {FieldContext(Append(path, k), k, value.lm[k]) : k \in DOMAIN value.lm}
    [] value.t = "[]string" ->
         {FieldContext(Append(path, IndexSegment(i - 1)), IndexSegment(i - 1), Str(value.sl[i])) :
            i \in 1..Len(value.sl)}
    [] OTHER -> {}

\* The calls of applyRules that scrubValue(s, value, path) makes, each with
\* its field context and the rules it applied.  Only an unmatched field of an
\* object is traversed further with rules; the elements of a generic list are
\* traversed under the path of the list.
RECURSIVE scrubVisits(_, _, _)
RECURSIVE visitField(_, _, _, _)

visitField(s, value, ctx, r) ==
  {[ctx |-> ctx, applied |-> r.trace]}
  \cup (IF ~r.ok /\ value.t = "map[string]any" THEN scrubVisits(s, ctx.Value, ctx.Path) ELSE {})

scrubVisits(s, value, path) ==
  IF value.t = "[]any"
  THEN UNION {scrubVisits(s, value.al[i], path) : i \in 1..Len(value.al)}
  ELSE UNION {visitField(s, value, ctx, applyRules(s, ctx)) : ctx \in fieldContexts(value, path)}

-----------------------------------------------------------------------------
(* encoding/json on the values of the model.  A document is the sequence of *)
(* its code points.  Numbers are integers without sign, fraction or         *)
(* exponent; \u escapes are read as one code point each.                    *)

\* A []byte buffer; the nil slice is Nil.
Bytes(id, b) == [t |-> "[]byte", id |-> id, by |-> b]
BytesOf(buf) == IF buf.t = "nil" THEN <<>> ELSE buf.by

\* The caller's own buffer handed back.
sameBytes(b) == Bytes(<<>>, b)

\* append([]byte(nil), data...)
copyBytes(b) == IF b = <<>> THEN Nil ELSE Bytes(Fresh, b)

\* The white space of JSON: space, \t, \n, \r.
JsonSpace == {32, 9, 10, 13}
\* 0..9
Digits == 48..57
\* 0..9, a..f, A..F
HexDigits == Digits \cup (97..102) \cup (65..70)

HexValue(c) == IF c \in Digits THEN c - 48 ELSE IF c >= 97 THEN c - 87 ELSE c - 55
HexDigitOf(n) == IF n < 10 THEN 48 + n ELSE 87 + n

\* \u00XX
UnicodeEscape(c) == <<92, 117, 48, 48, HexDigitOf(c \div 16), HexDigitOf(c % 16)>>

\* The escaping of one code point inside a string literal by json.Marshal,
\* which also escapes <, > and &.
EscapeRune(c) ==
  CASE c = 34 -> <<92, 34>>                                   \* \"
    [] c = 92 -> <<92, 92>>                                   \* \\
    [] c = 10 -> <<92, 110>>                                  \* \n
    [] c = 13 -> <<92, 114>>                                  \* \r
    [] c = 9 -> <<92, 116>>                                   \* \t
    [] c \in {60, 62, 38} -> UnicodeEscape(c)                 \* < > &
    [] OTHER -> IF c < 32 THEN UnicodeEscape(c) ELSE <<c>>

RECURSIVE EscapeText(_)
EscapeText(s) == IF s = <<>> THEN <<>> ELSE EscapeRune(Head(s)) \o EscapeText(Tail(s))

Quote(s) == <<34>> \o EscapeText(s) \o <<34>>

\* json.Marshal(v), which never fails on the values of the model: an object
\* is written with its keys sorted.
RECURSIVE Marshal(_)
RECURSIVE MarshalEntries(_, _)

MarshalEntries(v, keys) ==
  [i \in 1..Len(keys) |-> Quote(keys[i]) \o <<58>> \o Marshal(Elements(v)[keys[i]])]

Marshal(v) ==
  CASE v.t = "nil" -> <<110, 117, 108, 108>>                          \* null
    [] v.t = "string" -> Quote(v.s)
    [] v.t = "bool" -> IF v.b THEN <<116, 114, 117, 101>>               \* true
                       ELSE <<102, 97, 108, 115, 101>>                  \* false
    [] v.t = "float64" -> Itoa(v.n)
    [] v.t \in MapTypes ->
         <<123>> \o Join(MarshalEntries(v, SortedTexts(DOMAIN Elements(v))), <<44>>) \o <<125>>
    [] v.t \in ListTypes ->
         <<91>> \o Join([i \in 1..Len(Elements(v)) |-> Marshal(Elements(v)[i])], <<44>>) \o <<93>>

\* The decoder works on positions of the document b; a result is
\* [ok, v, i]: success, the value, the position after it.
ParseFail == [ok |-> FALSE, v |-> Nil, i |-> 0]
Parsed(v, i) == [ok |-> TRUE, v |-> v, i |-> i]

RECURSIVE skipSpace(_, _)
skipSpace(b, i) == IF i <= Len(b) /\ b[i] \in JsonSpace THEN skipSpace(b, i + 1) ELSE i

HasPrefixAt(b, i, lit) ==
  i + Len(lit) - 1 <= Len(b) /\ SubSeq(b, i, i + Len(lit) - 1) = lit

\* The code point of \uXXXX with the hex digits at b[i..i+3]; half of a
\* surrogate pair reads as U+FFFD.
HexRune(b, i) ==
  IF HexValue(b[i]) = 13 /\ HexValue(b[i + 1]) >= 8 THEN 65533
  ELSE ((HexValue(b[i]) * 16 + HexValue(b[i + 1])) * 16 + HexValue(b[i + 2])) * 16
       + HexValue(b[i + 3])

\* The code point a one-letter escape stands for, 0 when there is no such escape.
Unescaped(c) ==
  CASE c \in {34, 92, 47} -> c                                \* \" \\ \/
    [] c = 98 -> 8                                            \* \b
    [] c = 102 -> 12                                          \* \f
    [] c = 110 -> 10                                          \* \n
    [] c = 114 -> 13                                          \* \r
    [] c = 116 -> 9                                           \* \t
    [] OTHER -> 0

\* The body of a string literal from position i (after the opening quote).
RECURSIVE parseString(_, _, _)
parseString(b, i, acc) ==
  IF i > Len(b) THEN ParseFail
  ELSE IF b[i] = 34 THEN Parsed(Str(acc), i + 1)
  ELSE IF b[i] = 92 THEN
    (IF i + 1 > Len(b) THEN ParseFail
     ELSE IF b[i + 1] = 117 THEN
       (IF i + 5 <= Len(b) /\ \A j \in (i + 2)..(i + 5) : b[j] \in HexDigits
        THEN parseString(b, i + 6, Append(acc, HexRune(b, i + 2)))
        ELSE ParseFail)
     ELSE IF Unescaped(b[i + 1]) # 0 THEN parseString(b, i + 2, Append(acc, Unescaped(b[i + 1])))
     ELSE ParseFail)
  ELSE IF b[i] < 32 THEN ParseFail
  ELSE parseString(b, i + 1, Append(acc, b[i]))

RECURSIVE parseDigits(_, _, _)
parseDigits(b, i, acc) ==
  IF i <= Len(b) /\ b[i] \in Digits THEN parseDigits(b, i + 1, acc * 10 + (b[i] - 48))
  ELSE Parsed(Num(acc), i)

\* A number from position i, where b[i] is a digit: no leading zero.
parseNumber(b, i) ==
  IF b[i] = 48 THEN Parsed(Num(0), i + 1) ELSE parseDigits(b, i, 0)

RECURSIVE parseValue(_, _)
RECURSIVE parseMembers(_, _, _, _)
RECURSIVE parseMember(_, _, _, _)
RECURSIVE parseMemberValue(_, _, _, _, _)
RECURSIVE parseElements(_, _, _, _)
RECURSIVE parseElement(_, _, _, _)

\* After a member or an element that ends before position i: `close` ends
\* the container, a comma leads to the next one.
Closes(b, i, close) == i <= Len(b) /\ b[i] = close
Continues(b, i) == i <= Len(b) /\ b[i] = 44

\* m with key set to v: a repeated key keeps its last value.
WithMember(m, key, v) == [k \in DOMAIN m \cup {key} |-> IF k = key THEN v ELSE m[k]]

\* The members of an object from position i (white space skipped); m holds the
\* members read so far, first tells that none was read.
parseMembers(b, i, m, first) ==
  IF i > Len(b) THEN ParseFail
  ELSE IF first /\ b[i] = 125 THEN Parsed(Obj(Fresh, m), i + 1)
  ELSE IF b[i] # 34 THEN ParseFail
  ELSE parseMember(b, parseString(b, i + 1, <<>>), m, first)

\* key is the parsed name of a member: a colon and a value follow.
parseMember(b, key, m, first) ==
  IF ~key.ok \/ ~Closes(b, skipSpace(b, key.i), 58) THEN ParseFail
  ELSE parseMemberValue(b, key.v.s, parseValue(b, skipSpace(b, key.i) + 1), m, first)

parseMemberValue(b, key, val, m, first) ==
  IF ~val.ok THEN ParseFail
  ELSE IF Closes(b, skipSpace(b, val.i), 125)
  THEN Parsed(Obj(Fresh, WithMember(m, key, val.v)), skipSpace(b, val.i) + 1)
  ELSE IF Continues(b, skipSpace(b, val.i))
  THEN parseMembers(b, skipSpace(b, skipSpace(b, val.i) + 1), WithMember(m, key, val.v), FALSE)
  ELSE ParseFail

\* The elements of an array from position i (white space skipped).
parseElements(b, i, l, first) ==
  IF i > Len(b) THEN ParseFail
  ELSE IF first /\ b[i] = 93 THEN Parsed(List(Fresh, l), i + 1)
  ELSE parseElement(b, parseValue(b, i), l, first)

parseElement(b, val, l, first) ==
  IF ~val.ok THEN ParseFail
  ELSE IF Closes(b, skipSpace(b, val.i), 93)
  THEN Parsed(List(Fresh, Append(l, val.v)), skipSpace(b, val.i) + 1)
  ELSE IF Continues(b, skipSpace(b, val.i))
  THEN parseElements(b, skipSpace(b, skipSpace(b, val.i) + 1), Append(l, val.v), FALSE)
  ELSE ParseFail

\* The value that starts at position i (white space skipped).
valueAt(b, i) ==
  IF i > Len(b) THEN ParseFail
  ELSE IF b[i] = 123 THEN parseMembers(b, skipSpace(b, i + 1), <<>>, TRUE)
  ELSE IF b[i] = 91 THEN parseElements(b, skipSpace(b, i + 1), <<>>, TRUE)
  ELSE IF b[i] = 34 THEN parseString(b, i + 1, <<>>)
  ELSE IF b[i] \in Digits THEN parseNumber(b, i)
  ELSE IF HasPrefixAt(b, i, <<116, 114, 117, 101>>) THEN Parsed(Bool(TRUE), i + 4)        \* true
  ELSE IF HasPrefixAt(b, i, <<102, 97, 108, 115, 101>>) THEN Parsed(Bool(FALSE), i + 5)   \* false
  ELSE IF HasPrefixAt(b, i, <<110, 117, 108, 108>>) THEN Parsed(Nil, i + 4)               \* null
  ELSE ParseFail

parseValue(b, i) == valueAt(b, skipSpace(b, i))

\* The end of Unmarshal: nothing but white space may follow the value.
wholeDocument(b, r) ==
  IF r.ok /\ skipSpace(b, r.i) > Len(b) THEN [ok |-> TRUE, v |-> r.v]
  ELSE [ok |-> FALSE, v |-> Nil]

\* json.Unmarshal(b, &payload) into an `any`: [ok, v].
Unmarshal(b) == wholeDocument(b, parseValue(b, 1))

-----------------------------------------------------------------------------
(* Entry points *)

\* A Scrub that sends a flat string map through the generic object it is
\* promoted to, without coercing the result back.
ScrubPromoting(s, value) ==
  IF s.nil THEN value
  ELSE IF value.t = "map[string]string"
  THEN scrubValue(s, Obj(Fresh, [k \in DOMAIN value.sm |-> Str(value.sm[k])]), <<>>)
  ELSE scrubValue(s, value, <<>>)

Scrub(s, value) == IF s.nil THEN value ELSE scrubValue(s, value, <<>>)

\* `if res, ok := s.scrubValue(data, nil).(map[string]any); ok { return res }; return data`
asMapOr(res, data) == IF res.t = "map[string]any" THEN res ELSE data

\* data is a map[string]any or Nil (the nil map).
ScrubMap(s, data) ==
  IF s.nil \/ data.t = "nil" THEN data ELSE asMapOr(scrubValue(s, data, <<>>), data)

\* A cloneTags that hands back the caller's map.
sameTags(tags) == tags

\* cloneTags: tags is a map[string]string or Nil (the nil map).
cloneTags(tags) ==
  IF tags.t = "nil" \/ DOMAIN tags.sm = {} THEN Nil
  ELSE StrMap(Fresh, [k \in DOMAIN tags.sm |-> tags.sm[k]])

\* generic := make(map[string]any, len(cloned)) filled from cloned
genericOf(cloned) == Obj(Fresh, [k \in DOMAIN cloned.sm |-> Str(cloned.sm[k])])

\* An end of ScrubStringMap that returns the clone as it was made.
finalUnscrubbed(scrubbed, cloned) == cloned

\* The end of ScrubStringMap: scrubbed is what scrubValue gave for generic.
finalOf(scrubbed, cloned) ==
  IF scrubbed.t # "map[string]any" THEN cloned
  ELSE StrMap(Fresh, [k \in DOMAIN scrubbed.m |-> toString(scrubbed.m[k])])

\* ScrubStringMap after `cloned := cloneTags(data)`.
scrubCloned(s, cloned) ==
  IF s.nil \/ cloned.t = "nil" THEN cloned
  ELSE finalOf(scrubValue(s, genericOf(cloned), <<>>), cloned)

ScrubStringMap(s, data) == scrubCloned(s, cloneTags(data))

DecodeError == "scrubber: decode json"

\* A ScrubJSON that encodes what it decoded, scrubbing nothing.
encodeDecoded(s, payload) ==
  IF ~payload.ok THEN [out |-> Nil, err |-> DecodeError, evals |-> {}]
  ELSE [out |-> Bytes(Fresh, Marshal(payload.v)), err |-> "nil", evals |-> {}]

\* A ScrubJSON that answers a document it cannot decode with null.
scrubDecodedOrNull(s, payload) ==
  IF ~payload.ok THEN [out |-> Bytes(Fresh, <<110, 117, 108, 108>>), err |-> "nil", evals |-> {}]
  ELSE [out |-> Bytes(Fresh, Marshal(scrubValue(s, payload.v, <<>>))),
        err |-> "nil",
        evals |-> scrubVisits(s, payload.v, <<>>)]

\* ScrubJSON after json.Unmarshal: payload is [ok, v].
scrubDecoded(s, payload) ==
  IF ~payload.ok THEN [out |-> Nil, err |-> DecodeError, evals |-> {}]
  ELSE [out |-> Bytes(Fresh, Marshal(scrubValue(s, payload.v, <<>>))),
        err |-> "nil",
        evals |-> scrubVisits(s, payload.v, <<>>)]

\* ScrubJSON(data): [out, err], and the calls of applyRules it made.
ScrubJSON(s, data) ==
  IF s.nil \/ Len(TrimSpace(BytesOf(data))) = 0
  THEN [out |-> copyBytes(BytesOf(data)), err |-> "nil", evals |-> {}]
  ELSE scrubDecoded(s, Unmarshal(TrimSpace(BytesOf(data))))

-----------------------------------------------------------------------------
(* The caller's memory: containers are shared by identity. *)

\* The elements of a container that may be containers themselves, by
\* selector: the key in a map, the text [i] in a list.
Children(v) ==
  CASE v.t = "map[string]any" -> v.m
    [] v.t = "map[string][]string" -> v.lm
    [] v.t = "[]any" -> [sel \in {IndexSegment(i - 1) : i \in 1..Len(v.al)} |->
                           v.al[CHOOSE i \in 1..Len(v.al) : IndexSegment(i - 1) = sel]]
    [] OTHER -> <<>>

\* v with its children replaced by f (same selectors).
WithChildren(v, f) ==
  CASE v.t = "map[string]any" -> [v EXCEPT !.m = f]
    [] v.t = "map[string][]string" -> [v EXCEPT !.lm = f]
    [] v.t = "[]any" -> [v EXCEPT !.al = [i \in 1..Len(v.al) |-> f[IndexSegment(i - 1)]]]
    [] OTHER -> v

\* The positions of the containers inside v (v itself is at <<>>).
RECURSIVE ContainerPositions(_)
ContainerPositions(v) ==
  IF ~IsContainer(v) THEN {}
  ELSE {<<>>} \cup UNION {{<<sel>> \o p : p \in ContainerPositions(Children(v)[sel])} :
                            sel \in DOMAIN Children(v)}

RECURSIVE At(_, _)
At(v, pos) == IF pos = <<>> THEN v ELSE At(Children(v)[Head(pos)], Tail(pos))

RECURSIVE ReplaceAt(_, _, _)
ReplaceAt(v, pos, new) ==
  IF pos = <<>> THEN new
  ELSE WithChildren(v, [sel \in DOMAIN Children(v) |->
                          IF sel = Head(pos) THEN ReplaceAt(Children(v)[sel], Tail(pos), new)
                          ELSE Children(v)[sel]])

\* The identities of the containers of v.
ContainerIds(v) == {At(v, p).id : p \in ContainerPositions(v)}

\* The caller's argument: each container identified by its position.
RECURSIVE Label(_, _)
Label(v, pos) ==
  IF ~IsContainer(v) THEN v
  ELSE WithChildren([v EXCEPT !.id = pos],
                    [sel \in DOMAIN Children(v) |-> Label(Children(v)[sel], Append(pos, sel))])

\* A deep copy of v: the same contents in containers of its own
\* (what reflect.DeepEqual compares).
RECURSIVE DeepCopy(_)
DeepCopy(v) ==
  IF ~IsContainer(v) THEN v
  ELSE WithChildren([v EXCEPT !.id = Fresh],
                    [sel \in DOMAIN Children(v) |-> DeepCopy(Children(v)[sel])])

\* The places of w that hold the container with identity id.
PlacesOf(w, id) == {p \in ContainerPositions(w) : At(w, p).id = id}

\* v after every container of v that also occurs in w (same identity) took the
\* contents it has in w: the view through v of the memory that w was written to.
RECURSIVE Sync(_, _)
Sync(v, w) ==
  IF ~IsContainer(v) THEN v
  ELSE IF v.id # Fresh /\ PlacesOf(w, v.id) # {} THEN At(w, CHOOSE p \in PlacesOf(w, v.id) : TRUE)
  ELSE WithChildren(v, [sel \in DOMAIN Children(v) |-> Sync(Children(v)[sel], w)])

\* "!"
Poked == <<33>>

CanPoke(c) == c.t \in MapTypes
              \/ (c.t = "[]string" /\ Len(c.sl) > 0)
              \/ (c.t = "[]any" /\ Len(c.al) > 0)
              \/ (c.t = "[]int" /\ Len(c.il) > 0)

\* m["!"] = v
PokeMap(m, v) == [k \in DOMAIN m \cup {Poked} |-> IF k = Poked THEN v ELSE m[k]]

\* A write by the caller into container c: a new entry in a map, a new first
\* element in a list.
Poke(c) ==
  CASE c.t = "map[string]any" -> [c EXCEPT !.m = PokeMap(c.m, Str(Poked))]
    [] c.t = "map[string]string" -> [c EXCEPT !.sm = PokeMap(c.sm, Poked)]
    [] c.t = "map[string][]string" -> [c EXCEPT !.lm = PokeMap(c.lm, StrList(Fresh, <<Poked>>))]
    [] c.t = "[]string" -> [c EXCEPT !.sl[1] = Poked]
    [] c.t = "[]any" -> [c EXCEPT !.al[1] = Str(Poked)]
    [] c.t = "[]int" -> [c EXCEPT !.il[1] = c.il[1] + 1]

-----------------------------------------------------------------------------
(* Bounds and the pools the arguments are drawn from *)

MaxLen == 2      \* longest list in an argument
MaxDepth == 2    \* deepest nesting of containers in an argument
MaxOpts == 2     \* most options given to NewScrubber
MaxRules == 3    \* longest rule list of a Scrubber

SeqsUpTo(S, n) == UNION {[1..k -> S] : k \in 0..n}

\* The maps from a subset of keys to vals.
MapsOver(keys, vals) == UNION {[ks -> vals] : ks \in SUBSET keys}

Auth == <<65, 117, 116, 104>>        \* Auth
AuthKey == <<97, 117, 116, 104>>     \* auth
FirstKey == <<91, 48, 93>>           \* [0]
Other == <<110>>                     \* n
TextV == <<118>>                     \* v
TextX == <<120>>                     \* x
TextY == <<121>>                     \* y
Hash == <<35>>                       \* #

\* The containers whose elements are scalars, over given keys, scalars and texts.
FlatContainers(keys, leaves, texts) ==
  {Obj(Fresh, m) : m \in MapsOver(keys, leaves)}
  \cup {StrMap(Fresh, m) : m \in MapsOver(keys, texts)}
  \cup {ListMap(Fresh, m) : m \in MapsOver(keys, {StrList(Fresh, l) : l \in SeqsUpTo(texts, MaxLen)})}
  \cup {StrList(Fresh, l) : l \in SeqsUpTo(texts, MaxLen)}
  \cup {List(Fresh, l) : l \in SeqsUpTo(leaves, MaxLen)}
  \cup {Ints(Fresh, <<7>>)}

\* inner as the only field of an object, as a field under a sensitive key
\* beside a scalar, and as the only element of a generic list.
Wrapped(inner) ==
  {Obj(Fresh, (Other :> inner)),
   Obj(Fresh, (Auth :> inner) @@ (Other :> Str(TextV))),
   List(Fresh, <<inner>>)}

\* The containers nested at most d deep: the flat ones over the given keys,
\* scalars and texts, and the wrappings of the smaller nested ones.
RECURSIVE Containers(_, _, _, _)
Containers(d, keys, leaves, texts) ==
  IF d <= 1 THEN FlatContainers(keys, leaves, texts)
  ELSE FlatContainers(keys, leaves, texts)
       \cup UNION {Wrapped(inner) : inner \in Containers(d - 1, {Auth}, {Str(TextV)}, {TextV})}

\* The arguments of a call: the caller's containers are identified by position.
Arguments(d, keys, leaves, texts) ==
  {Label(v, <<>>) : v \in Containers(d, keys, leaves, texts)} \cup leaves

RemoveAuth == Rule("remove", MatchKeyInsensitive(<<AuthKey, FirstKey>>), RemoveValue, FALSE)
KeepAuth == Rule("keep", MatchKeyInsensitive(<<AuthKey>>), KeepValue, FALSE)

RulePool == {RemoveAuth, KeepAuth}

OptionPool ==
  {NilOption, WithoutDefaultRules, WithDefaultReplacement(Hash)}
  \cup {WithRules(<<r>>) : r \in RulePool}

Args == Arguments(MaxDepth, {Auth, Other}, {Str(TextV), Nil}, {TextV, TextY})

-----------------------------------------------------------------------------
(* The caller: builds a Scrubber, may add rules, calls one entry point, and *)
(* may then write to the argument or to the result, or scrub the result     *)
(* again.  The rules of the pools use MaskString with small counts;         *)
(* CallMaskString alone takes it to the ends of int.                        *)

Init ==
  /\ scrubber = NilScrubber
  /\ options = <<>>
  /\ pc = "init"
  /\ call = "none"
  /\ params = <<>>
  /\ input = Nil
  /\ output = Nil
  /\ err = "nil"
  /\ argSnap = Nil
  /\ outSnap = Nil
  /\ evals = {}
  /\ routines = <<>>
  /\ NoRecorder

\* s := NewScrubber(opts...)
Construct(opts) ==
  /\ pc = "init"
  /\ scrubber' = NewScrubber(opts)
  /\ options' = opts
  /\ pc' = "ready"
  /\ UNCHANGED <<call, params, input, output, err, argSnap, outSnap, evals>>
  /\ UNCHANGED others

\* var s *Scrubber
UseNilScrubber ==
  /\ pc = "init"
  /\ scrubber' = NilScrubber
  /\ pc' = "ready"
  /\ UNCHANGED <<options, call, params, input, output, err, argSnap, outSnap, evals>>
  /\ UNCHANGED others

\* s.AddRules(rules...)
DoAddRules(rules) ==
  /\ pc = "ready"
  /\ Len(scrubber.rules) + Len(rules) <= MaxRules
  /\ scrubber' = AddRules(scrubber, rules)
  /\ UNCHANGED <<options, pc, call, params, input, output, err, argSnap, outSnap, evals>>
  /\ UNCHANGED others

\* The call `name` on arg returned out and error, after the calls `visited` of
\* applyRules.
Returned(name, arg, out, error, visited) ==
  /\ call' = name
  /\ output' = out
  /\ input' = Sync(arg, out)
  /\ err' = error
  /\ argSnap' = DeepCopy(arg)
  /\ outSnap' = DeepCopy(out)
  /\ evals' = visited
  /\ pc' = "called"
  /\ UNCHANGED <<scrubber, options>>
  /\ UNCHANGED others

\* out := s.Scrub(x)
CallScrub(x) ==
  /\ pc = "ready"
  /\ UNCHANGED params
  /\ Returned("Scrub", x, Scrub(scrubber, x), "nil",
              IF scrubber.nil THEN {} ELSE scrubVisits(scrubber, x, <<>>))

\* out := s.ScrubMap(x)
CallScrubMap(x) ==
  /\ pc = "ready"
  /\ UNCHANGED params
  /\ Returned("ScrubMap", x, ScrubMap(scrubber, x), "nil",
              IF scrubber.nil \/ x.t = "nil" THEN {} ELSE scrubVisits(scrubber, x, <<>>))

\* out := s.ScrubStringMap(x)
CallScrubStringMap(x) ==
  /\ pc = "ready"
  /\ UNCHANGED params
  /\ Returned("ScrubStringMap", x, ScrubStringMap(scrubber, x), "nil",
              IF scrubber.nil \/ cloneTags(x).t = "nil" THEN {}
              ELSE scrubVisits(scrubber, genericOf(cloneTags(x)), <<>>))

\* ScrubJSON returned r.
ReturnedJSON(data, r) == Returned("ScrubJSON", data, r.out, r.err, r.evals)

\* out, err := s.ScrubJSON(data)
CallScrubJSON(data) ==
  /\ pc = "ready"
  /\ UNCHANGED params
  /\ ReturnedJSON(data, ScrubJSON(scrubber, data))

\* out := MaskString(mask, keepStart, keepEnd)(FieldContext{Value: text})
CallMaskString(mask, keepStart, keepEnd, text) ==
  /\ pc = "init"
  /\ params' = <<mask, keepStart, keepEnd>>
  /\ Returned("MaskString", Str(text),
              Transform(MaskString(mask, keepStart, keepEnd), FieldContext(<<>>, <<>>, Str(text))),
              "nil", {})

\* out = s.Scrub(out)
ScrubAgain ==
  /\ pc = "called"
  /\ call = "Scrub"
  /\ output' = Scrub(scrubber, output)
  /\ pc' = "again"
  /\ UNCHANGED <<scrubber, options, call, params, input, err, argSnap, outSnap, evals>>
  /\ UNCHANGED others

\* The caller writes into one container of the argument.
MutateInput ==
  /\ pc = "called"
  /\ \E p \in ContainerPositions(input) :
        /\ CanPoke(At(input, p))
        /\ input' = ReplaceAt(input, p, Poke(At(input, p)))
        /\ output' = Sync(output, input')
  /\ pc' = "wroteInput"
  /\ UNCHANGED <<scrubber, options, call, params, err, argSnap, outSnap, evals>>
  /\ UNCHANGED others

\* The caller writes into one container of the result.
MutateOutput ==
  /\ pc = "called"
  /\ \E p \in ContainerPositions(output) :
        /\ CanPoke(At(output, p))
        /\ output' = ReplaceAt(output, p, Poke(At(output, p)))
        /\ input' = Sync(input, output')
  /\ pc' = "wroteOutput"
  /\ UNCHANGED <<scrubber, options, call, params, err, argSnap, outSnap, evals>>
  /\ UNCHANGED others

IsType(v, t) == v.t = t

\* Any rule list, any shape: one option, rules added, one call, then a write
\* on either side or a second pass.
Next ==
  \/ \E o \in OptionPool : Construct(<<o>>)
  \/ UseNilScrubber
  \/ \E r \in RulePool : DoAddRules(<<r>>)
  \/ \E x \in Args : CallScrub(x)
  \/ \E x \in {a \in Args : IsType(a, "map[string]any")} \cup {Nil} : CallScrubMap(x)
  \/ \E x \in {a \in Args : IsType(a, "map[string]string")} \cup {Nil} : CallScrubStringMap(x)
  \/ ScrubAgain
  \/ MutateInput
  \/ MutateOutput

Spec == Init /\ [][Next]_vars

-----------------------------------------------------------------------------
(* Rule chaining: rule lists over chained and stopping rules, a rule with a *)
(* nil matcher and a rule with a nil transform.                             *)

KeyA == <<97>>                       \* a

R1 == Rule("R1", MatchKeyInsensitive(<<KeyA>>), ReplaceWith(TextX), TRUE)
R1Stop == Rule("R1", MatchKeyInsensitive(<<KeyA>>), ReplaceWith(TextX), FALSE)
R2 == Rule("R2", MatchAll(<<MatchKeyInsensitive(<<KeyA>>), MatchValueRegexp(LiteralRegexp(TextX))>>),
           ReplaceWith(TextY), FALSE)
MaskAll == Rule("mask", NilMatcher, MaskString(42, 1, 0), TRUE)
MaskAllStop == Rule("mask", NilMatcher, MaskString(42, 1, 0), FALSE)
NoApply == Rule("noop", MatchKeyInsensitive(<<KeyA>>), NilScrubFunc, FALSE)

ChainRules == {R1, R1Stop, R2, MaskAll, MaskAllStop, NoApply}

ChainArgs == Arguments(MaxDepth, {KeyA, Other}, {Str(TextV), Str(TextX)}, {TextV})

NextRules ==
  \/ \E opts \in {<<>>, <<WithoutDefaultRules>>} : Construct(opts)
  \/ \E r \in ChainRules : DoAddRules(<<r>>)
  \/ \E x \in ChainArgs : CallScrub(x)

SpecRules == Init /\ [][NextRules]_vars

-----------------------------------------------------------------------------
(* The default rule: every key of the vocabulary, in lower case and some in *)
(* other spellings, at the top and below objects and generic lists, under   *)
(* option lists in every order.                                             *)

OtherSpellings ==
  {Auth,
   <<65, 80, 73, 95, 75, 69, 89>>,                                        \* API_KEY
   <<83, 101, 116, 45, 67, 111, 111, 107, 105, 101>>}                     \* Set-Cookie

SensitiveSpellings == {SensitiveKeys[i] : i \in 1..Len(SensitiveKeys)} \cup OtherSpellings

\* Objects with a field k: beside a scalar sibling, alone with a nil value,
\* and holding an object with a sensitive key of its own.
FieldsWith(k) ==
  {Obj(Fresh, (k :> Str(TextV)) @@ (Other :> Str(TextV))),
   Obj(Fresh, (k :> Nil)),
   Obj(Fresh, (k :> Obj(Fresh, (AuthKey :> Str(TextV)))) @@ (Other :> Num(7)))}

\* v, and v below at most d - 1 objects and generic lists.
RECURSIVE Nested(_, _)
Nested(d, v) ==
  IF d <= 1 THEN {v}
  ELSE {v} \cup UNION {Nested(d - 1, w) :
                         w \in {List(Fresh, <<v>>),
                                Obj(Fresh, (TextX :> v) @@ (Other :> Str(TextY)))}}

SensitiveArgs ==
  {Label(a, <<>>) : a \in UNION {Nested(MaxDepth, o) : o \in UNION {FieldsWith(k) : k \in SensitiveSpellings}}}

ReplaceAuth == Rule("auth", MatchKeyInsensitive(<<AuthKey>>), ReplaceWith(TextX), FALSE)
ChainAuth == Rule("auth-chained", MatchKeyInsensitive(<<AuthKey>>), ReplaceWith(TextX), TRUE)
ReplaceOther == Rule("other", MatchKeyInsensitive(<<Other>>), ReplaceWith(TextX), FALSE)

DefaultOptions ==
  {WithoutDefaultRules, WithDefaultReplacement(Hash), WithDefaultReplacement(<<>>),
   WithRules(<<ReplaceAuth>>), WithRules(<<ChainAuth>>)}

NextDefaults ==
  \/ \E opts \in SeqsUpTo(DefaultOptions, MaxOpts) : Construct(opts)
  \/ DoAddRules(<<ReplaceOther>>)
  \/ \E x \in SensitiveArgs : CallScrub(x)

SpecDefaults == Init /\ [][NextDefaults]_vars

-----------------------------------------------------------------------------
(* ScrubJSON: the encodings of trees of objects, generic lists and scalars, *)
(* the same with white space around them, blank documents and documents     *)
(* that are not JSON.                                                       *)

JsonFlat(keys, leaves) ==
  {Obj(Fresh, m) : m \in MapsOver(keys, leaves)}
  \cup {List(Fresh, l) : l \in SeqsUpTo(leaves, MaxLen)}

RECURSIVE JsonContainers(_, _, _)
JsonContainers(d, keys, leaves) ==
  IF d <= 1 THEN JsonFlat(keys, leaves)
  ELSE JsonFlat(keys, leaves)
       \cup UNION {Wrapped(inner) : inner \in JsonContainers(d - 1, {Auth}, {Str(TextV)})}

\* The trees a JSON document decodes to.
JsonTrees ==
  JsonContainers(MaxDepth, {Auth, Other}, {Str(TextV), Nil, Num(7)})
  \cup {Str(TextV), Str(<<60, 34>>), Nil, Num(70), Bool(TRUE), Bool(FALSE)}

AuthDoc == Marshal(Obj(Fresh, (Auth :> Str(TextV))))      \* {"Auth":"v"}

BlankDocs == {<<>>, <<32>>, <<10, 9>>, <<12>>, <<32, 160, 13>>}

SpacedDocs ==
  {<<32>> \o AuthDoc \o <<10>>,
   <<12>> \o AuthDoc,                                      \* form feed first
   AuthDoc \o <<160>>,                                     \* no-break space last
   <<91, 32, 49, 32, 44, 9, 50, 32, 93>>}                  \* [ 1 ,\t2 ]

BrokenDocs ==
  {<<123>>,                                                \* {
   <<123, 12, 125>>,                                       \* {\f}
   <<91, 49, 44, 93>>,                                     \* [1,]
   AuthDoc \o <<32, 120>>,                                 \* {"Auth":"v"} x
   <<34, 118>>,                                            \* "v
   <<110, 117, 108>>}                                      \* nul

Docs == {Marshal(x) : x \in JsonTrees} \cup BlankDocs \cup SpacedDocs \cup BrokenDocs

JsonOptions ==
  {NilOption, WithoutDefaultRules, WithDefaultReplacement(<<60>>),     \* <
   WithRules(<<RemoveAuth>>), WithRules(<<MaskAll>>)}

\* The caller's buffer, or the nil slice.
Buffers == {Bytes(<<>>, d) : d \in Docs} \cup {Nil}

NextJSON ==
  \/ \E o \in JsonOptions : Construct(<<o>>)
  \/ UseNilScrubber
  \/ \E data \in Buffers : CallScrubJSON(data)

SpecJSON == Init /\ [][NextJSON]_vars

-----------------------------------------------------------------------------
(* MaskString on its own, with counts from below zero to the largest int.   *)

MaskRunes == {42, 35, 0}                                  \* '*', '#', rune 0
Counts == {-1, 0, 1, 2, 4, MaxInt}
Digits10 == <<49, 50, 51, 52, 53, 54, 55, 56, 57, 48>>    \* 1234567890
MaskTexts == SeqsUpTo({97, 233}, MaxLen + 1) \cup {Digits10}

NextMask ==
  \E mask \in MaskRunes, keepStart \in Counts, keepEnd \in Counts, text \in MaskTexts :
     CallMaskString(mask, keepStart, keepEnd, text)

SpecMask == Init /\ [][NextMask]_vars

-----------------------------------------------------------------------------
(* Properties of the default rule (SpecDefaults)                            *)

\* The built-in vocabulary, as the documentation lists it.
Vocabulary ==
  {<<112, 97, 115, 115, 119, 111, 114, 100>>,                             \* password
   <<112, 97, 115, 115>>,                                                 \* pass
   <<112, 97, 115, 115, 119, 100>>,                                       \* passwd
   <<115, 101, 99, 114, 101, 116>>,                                       \* secret
   <<116, 111, 107, 101, 110>>,                                           \* token
   <<97, 117, 116, 104>>,                                                 \* auth
   <<97, 117, 116, 104, 111, 114, 105, 122, 97, 116, 105, 111, 110>>,     \* authorization
   <<97, 112, 105, 95, 107, 101, 121>>,                                   \* api_key
   <<97, 112, 105, 107, 101, 121>>,                                       \* apikey
   <<97, 99, 99, 101, 115, 115, 95, 116, 111, 107, 101, 110>>,            \* access_token
   <<114, 101, 102, 114, 101, 115, 104, 95, 116, 111, 107, 101, 110>>,    \* refresh_token
   <<115, 101, 115, 115, 105, 111, 110>>,                                 \* session
   <<99, 111, 111, 107, 105, 101>>,                                       \* cookie
   <<115, 101, 116, 45, 99, 111, 111, 107, 105, 101>>}                    \* set-cookie

InVocabulary(key) == ToLower(key) \in Vocabulary

\* The WithDefaultReplacement options of opts that carry a text.
ReplacementOptions(opts) ==
  SelectSeq(opts, LAMBDA o : o.o = "WithDefaultReplacement" /\ o.replacement # <<>>)

\* The text the options ask for: the last one given, else [REDACTED].
LastOr(texts, default) == IF texts = <<>> THEN default ELSE texts[Len(texts)].replacement
ConfiguredReplacement(opts) ==
  LastOr(ReplacementOptions(opts), <<91, 82, 69, 68, 65, 67, 84, 69, 68, 93>>)

\* How many rules the WithRules options of opts carry.
RECURSIVE NumWithRules(_)
NumWithRules(opts) ==
  IF opts = <<>> THEN 0
  ELSE (IF Head(opts).o = "WithRules" THEN Len(Head(opts).rules) ELSE 0) + NumWithRules(Tail(opts))

\* Among the applied rules tr is one given through WithRules whose chain flag
\* is false.
StoppedByCallerRule(tr) ==
  \E j \in 1..Len(tr) :
     tr[j].rule <= NumWithRules(options) /\ ~scrubber.rules[tr[j].rule].Continue

\* The walk over the objects and generic lists of the argument and the result
\* side by side, down to the first field a rule was applied to.  With exact
\* set, a sensitive field must hold the replacement and a scalar sibling its
\* value whatever the caller's rules did; without, a field is excused when a
\* caller's rule decided it.
RECURSIVE DefaultsCover(_, _, _, _)
RECURSIVE FieldCovered(_, _, _, _, _)

FieldCovered(vin, vout, ctx, tr, exact) ==
  IF InVocabulary(ctx.Key)
  THEN (~exact /\ StoppedByCallerRule(tr)) \/ vout = Str(ConfiguredReplacement(options))
  ELSE IF ~IsContainer(vin) THEN (~exact /\ tr # <<>>) \/ vout = vin
  ELSE tr # <<>> \/ DefaultsCover(vin, vout, ctx.Path, exact)

DefaultsCover(in, out, path, exact) ==
  CASE in.t = "map[string]any" ->
         /\ out.t = in.t
         /\ DOMAIN out.m = DOMAIN in.m
         /\ \A k \in DOMAIN in.m :
               /\ \E e \in evals : e.ctx = FieldContext(Append(path, k), k, in.m[k])
               /\ \A e \in evals :
                     e.ctx = FieldContext(Append(path, k), k, in.m[k])
                       => FieldCovered(in.m[k], out.m[k], e.ctx, e.applied, exact)
    [] in.t = "[]any" ->
         /\ out.t = in.t
         /\ Len(out.al) = Len(in.al)
         /\ \A i \in 1..Len(in.al) : DefaultsCover(in.al[i], out.al[i], path, exact)
    [] OTHER -> TRUE

\* C1 (as amended): with default rules enabled, every field under a key of
\* the vocabulary (in any letter case), at any depth of objects and generic
\* lists and below no field a rule was applied to, holds the configured
\* default replacement after Scrub -- [REDACTED], or the last non-empty text
\* given to WithDefaultReplacement wherever it stands among the options --
\* unless a rule given through WithRules was applied to it with its chain flag
\* false; and every scalar sibling whose key is outside the vocabulary and to
\* which no rule was applied keeps its value.
C1_DefaultRuleCoverage ==
  (pc = "called" /\ call = "Scrub" /\ scrubber.includeDefaults)
    => DefaultsCover(input, output, <<>>, FALSE)

\* C1 as stated: the same without regard to the caller's rules.
C1_AsStated ==
  (pc = "called" /\ call = "Scrub" /\ scrubber.includeDefaults)
    => DefaultsCover(input, output, <<>>, TRUE)

\* Scrub under WithRules(auth-chained), WithDefaultReplacement("#") of
\* {"x": {"API_KEY": "v", "n": "v"}, "n": "y"} gave
\* {"x": {"API_KEY": "#", "n": "v"}, "n": "y"}, and the same with Set-Cookie.
C1_Witness ==
  /\ pc = "called" /\ call = "Scrub"
  /\ options = <<WithRules(<<ChainAuth>>), WithDefaultReplacement(Hash)>>
  /\ scrubber.includeDefaults
  /\ \E k \in OtherSpellings :
        /\ k # Auth
        /\ argSnap = Obj(Fresh, (TextX :> Obj(Fresh, (k :> Str(TextV)) @@ (Other :> Str(TextV))))
                                 @@ (Other :> Str(TextY)))
        /\ outSnap = Obj(Fresh, (TextX :> Obj(Fresh, (k :> Str(Hash)) @@ (Other :> Str(TextV))))
                                 @@ (Other :> Str(TextY)))

-----------------------------------------------------------------------------
(* Properties of Scrub and ScrubStringMap over every shape (Spec)           *)

Recognized == {"map[string]any", "map[string]string", "map[string][]string", "[]string", "[]any"}

\* The key set of a map, the length of a list.
Extent(v) ==
  CASE v.t = "map[string]any" -> DOMAIN v.m
    [] v.t = "map[string]string" -> DOMAIN v.sm
    [] v.t = "map[string][]string" -> DOMAIN v.lm
    [] v.t = "[]string" -> Len(v.sl)
    [] v.t = "[]any" -> Len(v.al)

\* C2: whatever the rules, Scrub of an object, a flat string map, a
\* string-list map, a list of strings or a generic list returns a value of
\* the same shape, with the same key set for the three maps and the same
\* length for the two lists.
C2_ShapePreserved ==
  (call = "Scrub" /\ argSnap.t \in Recognized)
    => (outSnap.t = argSnap.t /\ Extent(outSnap) = Extent(argSnap))

\* Scrub with a RemoveValue rule on auth kept both keys of a string-list map
\* whose Auth list it emptied.
C2_Witness ==
  /\ call = "Scrub" /\ pc = "called"
  /\ ~scrubber.nil /\ Len(scrubber.rules) > 0 /\ scrubber.rules[1] = RemoveAuth
  /\ argSnap = ListMap(Fresh, (Auth :> StrList(Fresh, <<TextV, TextY>>)) @@ (Other :> StrList(Fresh, <<TextY>>)))
  /\ outSnap = ListMap(Fresh, (Auth :> StrList(Fresh, <<>>)) @@ (Other :> StrList(Fresh, <<TextY>>)))

\* The types of the containers of v.
ContainerTypes(v) == {At(v, p).t : p \in ContainerPositions(v)}

\* The rules of s are built from the transforms of the package, which return
\* a text or nil, never the value they were given.
OwnTransforms(s) == \A i \in 1..Len(s.rules) : s.rules[i].Apply.f # KeepValue.f

\* No container of the result is a container of the argument, the argument is
\* as it was when the call was made, and a later write on one side has not
\* reached the other.
Separate ==
  /\ pc = "called" => ContainerIds(output) \subseteq {Fresh}
  /\ pc = "called" => DeepCopy(input) = argSnap
  /\ pc = "wroteInput" => DeepCopy(output) = outSnap
  /\ pc = "wroteOutput" => DeepCopy(input) = argSnap

\* C3 (as amended): ScrubStringMap always, and Scrub on a Scrubber that is
\* not nil, under rules whose transforms do not return the value they were
\* given, on an argument all of whose containers have a recognized shape,
\* write to no container of the argument and return no container of it: a
\* later write to the argument leaves the result as it was and a later write
\* to the result leaves the argument as it was.
C3_NoAliasing ==
  (call = "ScrubStringMap"
   \/ (call = "Scrub" /\ ~scrubber.nil /\ OwnTransforms(scrubber)
       /\ ContainerTypes(argSnap) \subseteq Recognized))
    => Separate

\* C3 as stated: the same of every Scrub and ScrubStringMap.
C3_AsStated == call \in {"Scrub", "ScrubStringMap"} => Separate

\* The caller wrote into the object nested in the argument after Scrub had
\* returned its own copy of it.
C3_Witness ==
  /\ call = "Scrub" /\ pc = "wroteInput"
  /\ ~scrubber.nil /\ OwnTransforms(scrubber)
  /\ argSnap = Obj(Fresh, (Other :> Obj(Fresh, (Auth :> Str(TextV)))))
  /\ DeepCopy(input) = Obj(Fresh, (Other :> Obj(Fresh, (Auth :> Str(TextV)) @@ (Poked :> Str(Poked)))))
  /\ outSnap = Obj(Fresh, (Other :> Obj(Fresh, (Auth :> Str(DefaultReplacement)))))
  /\ DeepCopy(output) = outSnap

\* The text of a scalar a transform returned.
ScalarText(r) == IF r.t = "nil" THEN <<>> ELSE IF r.t = "string" THEN r.s ELSE Sprint(r)

\* The list outl that Scrub made of the list inl of a string-list map, given
\* the rules tr applied to the field: copied when none was; when the last one
\* gave a scalar, that scalar's text once per element of inl.  With exact set
\* this is asked of every scalar and every list; without, of a scalar that is
\* not nil and a list that is not empty, an empty list becoming one text.
ListAsCounted(inl, outl, tr, exact) ==
  IF tr = <<>> THEN outl = inl
  ELSE IF IsContainer(tr[Len(tr)].gave) THEN TRUE
  ELSE IF exact THEN outl = [i \in 1..Len(inl) |-> ScalarText(tr[Len(tr)].gave)]
  ELSE IF tr[Len(tr)].gave.t = "nil" THEN TRUE
  ELSE IF inl = <<>> THEN outl = <<ScalarText(tr[Len(tr)].gave)>>
  ELSE outl = [i \in 1..Len(inl) |-> ScalarText(tr[Len(tr)].gave)]

ListsCounted(exact) ==
  (pc = "called" /\ call = "Scrub" /\ ~scrubber.nil /\ input.t = "map[string][]string")
    => /\ output.t = input.t
       /\ DOMAIN output.lm = DOMAIN input.lm
       /\ \A k \in DOMAIN input.lm :
             /\ \E e \in evals : e.ctx = FieldContext(<<k>>, k, input.lm[k])
             /\ \A e \in evals :
                   e.ctx = FieldContext(<<k>>, k, input.lm[k])
                     => ListAsCounted(input.lm[k].sl, output.lm[k].sl, e.applied, exact)

\* C5 (as amended): in a string-list map the list under every key comes out
\* with as many elements as it had, both when no rule is applied to the field
\* (the elements copied in order) and when a rule is applied and its transform
\* returns one scalar that is not nil and the list is not empty (the scalar's
\* text once per element); an empty list a rule replaces by such a scalar
\* comes out as the list of that one text.
C5_ElementCount == ListsCounted(FALSE)

\* C5 as stated: the same count for every list and every scalar.
C5_AsStated == ListsCounted(TRUE)

\* {"Auth": ["v", "y"], "n": ["y", "v"]} came out as
\* {"Auth": ["[REDACTED]", "[REDACTED]"], "n": ["y", "v"]}.
C5_Witness ==
  /\ pc = "called" /\ call = "Scrub" /\ ~scrubber.nil
  /\ argSnap = ListMap(Fresh, (Auth :> StrList(Fresh, <<TextV, TextY>>)) @@ (Other :> StrList(Fresh, <<TextY, TextV>>)))
  /\ outSnap = ListMap(Fresh, (Auth :> StrList(Fresh, <<DefaultReplacement, DefaultReplacement>>))
                              @@ (Other :> StrList(Fresh, <<TextY, TextV>>)))

\* The Scrubber holds the default rule and nothing else.
DefaultsOnly(s) == ~s.nil /\ Len(s.rules) = 1 /\ s.rules[1].Name = "default-sensitive"

\* C7: under the default rule alone, scrubbing the result of Scrub again
\* changes nothing, for every argument of a recognized shape.
C7_Idempotent ==
  (pc = "again" /\ DefaultsOnly(scrubber) /\ argSnap.t \in Recognized)
    => DeepCopy(output) = outSnap

\* {"Auth": {"Auth": "v"}, "n": "v"} became {"Auth": "[REDACTED]", "n": "v"}
\* and stayed so under a second pass.
C7_Witness ==
  /\ pc = "again" /\ DefaultsOnly(scrubber)
  /\ argSnap = Obj(Fresh, (Auth :> Obj(Fresh, (Auth :> Str(TextV)))) @@ (Other :> Str(TextV)))
  /\ outSnap = Obj(Fresh, (Auth :> Str(DefaultReplacement)) @@ (Other :> Str(TextV)))
  /\ DeepCopy(output) = outSnap

-----------------------------------------------------------------------------
(* Properties of the rule loop (SpecRules)                                  *)

\* The rule has a transform and its matcher, if it has one, accepts ctx.
Accepts(rule, ctx) ==
  rule.Apply.f # "nil" /\ (rule.Match.k = "nil" \/ Matches(rule.Match, ctx))

\* The value the field holds after the first j of the applied rules tr.
Working(tr, j, first) == IF j = 0 THEN first ELSE tr[j].gave

\* How many of the applied rules tr stand before rule i in the list.
AppliedBefore(tr, i) == Cardinality({j \in 1..Len(tr) : tr[j].rule < i})

\* The rule after which the loop was over: the applied rule with the chain
\* flag down, else the end of the list.
LastEvaluated(rules, tr) ==
  IF tr # <<>> /\ ~rules[tr[Len(tr)].rule].Continue THEN tr[Len(tr)].rule ELSE Len(rules)

\* tr is what a fold from the left over rules does at the field ctx.
IsFold(rules, ctx, tr) ==
  /\ \A j \in 1..Len(tr) :
        /\ tr[j].rule \in 1..Len(rules)
        /\ j < Len(tr) => tr[j].rule < tr[j + 1].rule
        /\ j < Len(tr) => rules[tr[j].rule].Continue
        /\ tr[j].saw = Working(tr, j - 1, ctx.Value)
        /\ Accepts(rules[tr[j].rule], FieldContext(ctx.Path, ctx.Key, tr[j].saw))
        /\ tr[j].gave = Transform(rules[tr[j].rule].Apply, FieldContext(ctx.Path, ctx.Key, tr[j].saw))
  /\ \A i \in 1..LastEvaluated(rules, tr) :
        (\A j \in 1..Len(tr) : tr[j].rule # i)
          => ~Accepts(rules[i], FieldContext(ctx.Path, ctx.Key,
                                             Working(tr, AppliedBefore(tr, i), ctx.Value)))

\* C4: at every field the applied rules are those a fold from the left over
\* the rule list applies -- each rule judged on, and applied to, the value the
\* rule applied before it gave; nothing evaluated after the first applied
\* rule whose chain flag is false -- and a field of an object holds what the
\* last applied transform gave.  With R1 (chained, a -> x) before R2 (a
\* holding x -> y) field a ends as y; with R1 not chained it ends as x.
C4_LeftFold ==
  (pc = "called" /\ call = "Scrub" /\ ~scrubber.nil)
    => /\ \A e \in evals : IsFold(scrubber.rules, e.ctx, e.applied)
       /\ input.t = "map[string]any"
            => \A e \in evals :
                  (Len(e.ctx.Path) = 1 /\ e.applied # <<>>)
                    => output.m[e.ctx.Key] = e.applied[Len(e.applied)].gave
       /\ (input.t = "map[string]any" /\ KeyA \in DOMAIN input.m)
            => /\ scrubber.rules = <<R1, R2>> => output.m[KeyA] = Str(TextY)
               /\ scrubber.rules = <<R1Stop, R2>> => output.m[KeyA] = Str(TextX)

\* Under R1, R2 the object {"a": "v", "n": "v"} came out as {"a": "y", "n": "v"}.
C4_Witness ==
  /\ pc = "called" /\ call = "Scrub"
  /\ scrubber.rules = <<R1, R2>>
  /\ argSnap = Obj(Fresh, (KeyA :> Str(TextV)) @@ (Other :> Str(TextV)))
  /\ outSnap = Obj(Fresh, (KeyA :> Str(TextY)) @@ (Other :> Str(TextV)))

-----------------------------------------------------------------------------
(* Properties of ScrubJSON (SpecJSON)                                       *)

\* C6: for every tree x of objects, generic lists and scalars, ScrubJSON of
\* the encoding of x returns no error and bytes that decode to Scrub(x).
C6_JSONAgreesWithScrub ==
  (pc = "called" /\ call = "ScrubJSON")
    => \A x \in JsonTrees :
          Marshal(x) = BytesOf(input)
            => /\ err = "nil"
               /\ output.t = "[]byte"
               /\ Unmarshal(output.by).ok
               /\ Unmarshal(output.by).v = Scrub(scrubber, x)

\* Under WithDefaultReplacement("<"), {"Auth":"v","n":7} came out as
\* {"Auth":"<","n":7}.
C6_Witness ==
  /\ pc = "called" /\ call = "ScrubJSON" /\ err = "nil"
  /\ options = <<WithDefaultReplacement(<<60>>)>>
  /\ BytesOf(input) = <<123, 34, 65, 117, 116, 104, 34, 58, 34, 118, 34, 44, 34, 110, 34, 58, 55, 125>>
  /\ BytesOf(output) = <<123, 34, 65, 117, 116, 104, 34, 58, 34, 92, 117, 48, 48, 51, 99, 34,
                         44, 34, 110, 34, 58, 55, 125>>

\* White space: the six ASCII characters; blank: nothing else.
Blank(b) == \A i \in 1..Len(b) : b[i] \in {9, 10, 11, 12, 13, 32}

\* The document is JSON text.
WellFormed(b) == Unmarshal(b).ok

\* ScrubJSON returned an error and no bytes.
Failed == err # "nil" /\ output = Nil

\* ScrubJSON returned no error and the encoding of the scrubbed tree of doc.
Succeeded(doc) ==
  /\ err = "nil"
  /\ WellFormed(doc)
  /\ BytesOf(output) = Marshal(scrubValue(scrubber, Unmarshal(doc).v, <<>>))

\* C8 (as amended): ScrubJSON on a Scrubber that is not nil is
\* all-or-nothing on the input as bytes.TrimSpace leaves it, when that is not
\* empty: if it is not well-formed JSON, ScrubJSON returns an error and no
\* bytes; it never returns both an error and
\* bytes; and when it returns no error on such input, the bytes are the
\* encoding of the completely scrubbed tree of the trimmed input.
C8_AllOrNothing ==
  (pc = "called" /\ call = "ScrubJSON" /\ ~scrubber.nil)
    => /\ (TrimSpace(BytesOf(input)) # <<>> /\ ~WellFormed(TrimSpace(BytesOf(input)))) => Failed
       /\ err # "nil" => output = Nil
       /\ (err = "nil" /\ TrimSpace(BytesOf(input)) # <<>>) => Succeeded(TrimSpace(BytesOf(input)))

\* C8 as stated: of every Scrubber and of the input as it is given.
C8_AsStated ==
  (pc = "called" /\ call = "ScrubJSON")
    => /\ ~WellFormed(BytesOf(input)) => Failed
       /\ err # "nil" => output = Nil
       /\ (err = "nil" /\ ~Blank(BytesOf(input))) => Succeeded(BytesOf(input))

\* {"Auth":"v"} x was refused with the decode error and no bytes.
C8_Witness ==
  /\ pc = "called" /\ call = "ScrubJSON" /\ ~scrubber.nil
  /\ BytesOf(input) = AuthDoc \o <<32, 120>>
  /\ err = DecodeError
  /\ output = Nil

\* C9: ScrubJSON of an empty or all-white-space input returns bytes equal to
\* the input and no error, in a buffer that is not the caller's, and
\* evaluates no rule.
C9_BlankInput ==
  (pc = "called" /\ call = "ScrubJSON" /\ Blank(BytesOf(input)))
    => /\ BytesOf(output) = BytesOf(input)
       /\ err = "nil"
       /\ output = Nil \/ input = Nil \/ output.id # input.id
       /\ evals = {}

\* A Scrubber with rules returned "\n\t" for "\n\t" in a buffer of its own.
C9_Witness ==
  /\ pc = "called" /\ call = "ScrubJSON"
  /\ ~scrubber.nil /\ Len(scrubber.rules) > 0
  /\ input = Bytes(<<>>, <<10, 9>>)
  /\ output = Bytes(Fresh, <<10, 9>>)
  /\ err = "nil" /\ evals = {}

-----------------------------------------------------------------------------
(* Properties of MaskString (SpecMask)                                      *)

AtLeastZero(n) == IF n < 0 THEN 0 ELSE n

\* The text the documentation promises for mask m, counts s and e (not
\* negative) and text t: all m when s + e reaches the length of t.
MaskedAsDocumented(m, s, e, t) ==
  IF s >= Len(t) \/ e >= Len(t) - s THEN [i \in 1..Len(t) |-> m]
  ELSE [i \in 1..Len(t) |-> IF i <= s \/ i > Len(t) - e THEN t[i] ELSE m]

\* C10: MaskString(m, s, e) on a text of L code points, negative s and e
\* taken as 0, returns L code points: L times m when s + e >= L, else the
\* first s code points, L - s - e times m, and the last e code points.
C10_AsStated ==
  (pc = "called" /\ call = "MaskString")
    => output = Str(MaskedAsDocumented(params[1], AtLeastZero(params[2]), AtLeastZero(params[3]), input.s))

\* MaskString('*', math.MaxInt, 1) on "aaa" panicked.
C10_Panicked ==
  /\ pc = "called" /\ call = "MaskString"
  /\ params = <<42, MaxInt, 1>>
  /\ input = Str(<<97, 97, 97>>)
  /\ output = Panic

-----------------------------------------------------------------------------
(* ScrubStringMap on its own (Spec)                                         *)

\* The text ScrubStringMap leaves under a key whose field saw the rules tr.
TagAfter(text, tr) == IF tr = <<>> THEN text ELSE ScalarText(tr[Len(tr)].gave)

\* The result holds the keys of the argument, each with its own text under a
\* nil Scrubber and else with what the rules applied to it gave.
ClonedAndScrubbed ==
  /\ outSnap.t = "map[string]string"
  /\ DOMAIN outSnap.sm = DOMAIN argSnap.sm
  /\ scrubber.nil => outSnap.sm = argSnap.sm
  /\ ~scrubber.nil =>
       \A k \in DOMAIN argSnap.sm :
          /\ \E e \in evals : e.ctx = FieldContext(<<k>>, k, Str(argSnap.sm[k]))
          /\ \A e \in evals :
                e.ctx = FieldContext(<<k>>, k, Str(argSnap.sm[k]))
                  => outSnap.sm[k] = TagAfter(argSnap.sm[k], e.applied)

\* The argument is a map that is not nil and, with inhabited set, not empty.
IsTagMap(v, inhabited) == v.t = "map[string]string" /\ (inhabited => DOMAIN v.sm # {})

\* ScrubStringMap returned a map of its own making, a clone of the argument.
FreshClone ==
  /\ pc = "called" => (output.t = "map[string]string" /\ output.id = Fresh)
  /\ ClonedAndScrubbed

\* C11 (as amended): ScrubStringMap returns, for an input map that is not
\* empty, a freshly allocated map that is a clone of it (scrubbed when the
\* Scrubber is not nil), under a nil Scrubber as under any other; for an
\* empty or nil input map it returns the nil map.  In every case it does not
\* return the caller's map and does not write to it.
C11_FreshClone ==
  call = "ScrubStringMap"
    => /\ IsTagMap(argSnap, TRUE) => FreshClone
       /\ ~IsTagMap(argSnap, TRUE) => outSnap = Nil
       /\ Separate

\* C11 as stated: a freshly allocated clone for the empty map as well.
C11_AsStated ==
  call = "ScrubStringMap"
    => /\ IsTagMap(argSnap, FALSE) => FreshClone
       /\ Separate

\* {"Auth": "v", "n": "y"} came back as a new map {"Auth": "[REDACTED]", "n": "y"}.
C11_Witness ==
  /\ pc = "called" /\ call = "ScrubStringMap" /\ ~scrubber.nil
  /\ input = StrMap(<<>>, (Auth :> TextV) @@ (Other :> TextY))
  /\ output = StrMap(Fresh, (Auth :> DefaultReplacement) @@ (Other :> TextY))


-----------------------------------------------------------------------------
(* Goroutines on one Scrubber (SpecShared).  A configured Scrubber is       *)
(* shared by goroutines that each make one call.  A call is taken in steps: *)
(* the entry up to scrubValue, one step for each field of the object handed *)
(* to scrubValue (the range over a Go map visits the keys in any order; a   *)
(* step covers the field's applyRules and, for an unmatched field, the      *)
(* descent into its value), and the end of the call.  The steps of          *)
(* different goroutines interleave freely.                                  *)

Goroutines == {1, 2}

IdleRoutine ==
  [pc |-> "idle", call |-> "none", arg |-> Nil, value |-> Nil, todo |-> {},
   cloned |-> <<>>, out |-> Nil, err |-> "nil"]

\* The entry of a call up to `s.scrubValue(value, nil)`: either the call
\* returns at once with [out, err], or value is handed to scrubValue.
Returns(out, error) == [returns |-> TRUE, out |-> out, err |-> error, value |-> Nil]
Traverses(value) == [returns |-> FALSE, out |-> Nil, err |-> "nil", value |-> value]

traverseDecoded(payload) ==
  IF payload.ok THEN Traverses(payload.v) ELSE Returns(Nil, DecodeError)

traverseCloned(s, cloned) ==
  IF s.nil \/ cloned.t = "nil" THEN Returns(cloned, "nil") ELSE Traverses(genericOf(cloned))

Entered(name, s, arg) ==
  CASE name = "Scrub" -> IF s.nil THEN Returns(arg, "nil") ELSE Traverses(arg)
    [] name = "ScrubMap" ->
         IF s.nil \/ arg.t = "nil" THEN Returns(arg, "nil") ELSE Traverses(arg)
    [] name = "ScrubStringMap" -> traverseCloned(s, cloneTags(arg))
    [] name = "ScrubJSON" ->
         IF s.nil \/ Len(TrimSpace(BytesOf(arg))) = 0
         THEN Returns(copyBytes(BytesOf(arg)), "nil")
         ELSE traverseDecoded(Unmarshal(TrimSpace(BytesOf(arg))))

\* The fields that scrubValue ranges over, one step each.
FieldsOf(value) == IF value.t = "map[string]any" THEN DOMAIN value.m ELSE {}

\* `cloned[k] = v` in every goroutine's map: a working map kept in one place
\* for all the calls.
putShared(work, p, k, v) ==
  [q \in DOMAIN work |->
     IF work[q].pc = "running" THEN [work[q] EXCEPT !.cloned = WithMember(@, k, v), !.todo = @ \ {k}]
     ELSE work[q]]

\* `cloned[k] = v` in the map that goroutine p made for its call.
putCloned(work, p, k, v) ==
  [work EXCEPT ![p].cloned = WithMember(@, k, v), ![p].todo = @ \ {k}]

\* What scrubValue returns once its range is over.
scrubbedOf(s, r) ==
  IF r.value.t = "map[string]any" THEN Obj(Fresh, r.cloned) ELSE scrubValue(s, r.value, <<>>)

\* The end of the call `name` on arg, scrubbed being what scrubValue gave.
resultOf(name, arg, scrubbed) ==
  CASE name = "Scrub" -> scrubbed
    [] name = "ScrubMap" -> asMapOr(scrubbed, arg)
    [] name = "ScrubStringMap" -> finalOf(scrubbed, cloneTags(arg))
    [] name = "ScrubJSON" -> Bytes(Fresh, Marshal(scrubbed))

entered(p, name, arg, e) ==
  routines' =
    [routines EXCEPT ![p] =
       IF e.returns
       THEN [IdleRoutine EXCEPT !.pc = "done", !.call = name, !.arg = arg,
                                !.out = e.out, !.err = e.err]
       ELSE [IdleRoutine EXCEPT !.pc = "running", !.call = name, !.arg = arg,
                                !.value = e.value, !.todo = FieldsOf(e.value)]]

\* go func() { out := s.<name>(arg) }()
Enter(p, name, arg) ==
  /\ pc = "shared"
  /\ routines[p].pc = "idle"
  /\ entered(p, name, arg, Entered(name, scrubber, arg))
  /\ UNCHANGED <<scrubVars, inMemory, walk, recVars>>

\* One turn of `for k, val := range v` in scrubValue.
Field(p, k) ==
  /\ routines[p].pc = "running"
  /\ k \in routines[p].todo
  /\ routines' =
       putCloned(routines, p, k,
                 replacedOr(applyRules(scrubber, FieldContext(<<k>>, k, routines[p].value.m[k])),
                            scrubValue(scrubber, routines[p].value.m[k], <<k>>)))
  /\ UNCHANGED <<scrubVars, inMemory, walk, recVars>>

\* `return cloned` in scrubValue and the rest of the entry point.
Leave(p) ==
  /\ routines[p].pc = "running"
  /\ routines[p].todo = {}
  /\ routines' =
       [routines EXCEPT ![p].pc = "done",
                        ![p].out = resultOf(routines[p].call, routines[p].arg,
                                            scrubbedOf(scrubber, routines[p]))]
  /\ UNCHANGED <<scrubVars, inMemory, walk, recVars>>

SharedOptions == {<<>>, <<WithRules(<<KeepAuth>>)>>, <<WithoutDefaultRules, WithRules(<<RemoveAuth>>)>>}

SharedMaps == MapsOver({Auth, Other}, {TextV})

SharedObjects ==
  {Obj(<<>>, [k \in DOMAIN m |-> Str(m[k])]) : m \in SharedMaps}
  \cup {Obj(<<>>, (Other :> Obj(<<1>>, (Auth :> Str(TextV)))))}

SharedDocs ==
  {Bytes(<<>>, Marshal(x)) : x \in SharedObjects}
  \cup {Bytes(<<>>, <<32>>), Bytes(<<>>, <<123>>), Nil}          \* " ", "{", nil

SharedCalls ==
  ({"Scrub"} \X (SharedObjects \cup {Str(TextV), StrList(<<>>, <<TextV>>)}))
  \cup ({"ScrubMap"} \X (SharedObjects \cup {Nil}))
  \cup ({"ScrubStringMap"} \X ({StrMap(<<>>, m) : m \in SharedMaps} \cup {Nil}))
  \cup ({"ScrubJSON"} \X SharedDocs)

InitShared ==
  /\ \E opts \in SharedOptions : options = opts /\ scrubber \in {NewScrubber(opts), NilScrubber}
  /\ pc = "shared"
  /\ call = "none"
  /\ params = <<>>
  /\ input = Nil
  /\ output = Nil
  /\ err = "nil"
  /\ argSnap = Nil
  /\ outSnap = Nil
  /\ evals = {}
  /\ routines = [p \in Goroutines |-> IdleRoutine]
  /\ NoRecorder

NextShared ==
  \/ \E p \in Goroutines : \E c \in SharedCalls : Enter(p, c[1], c[2])
  \/ \E p \in Goroutines : \E k \in {Auth, Other} : Field(p, k)
  \/ \E p \in Goroutines : Leave(p)

SpecShared == InitShared /\ [][NextShared]_vars

\* What the call gives when it runs alone on scrubber s.
Alone(name, s, arg) ==
  CASE name = "Scrub" -> [out |-> Scrub(s, arg), err |-> "nil"]
    [] name = "ScrubMap" -> [out |-> ScrubMap(s, arg), err |-> "nil"]
    [] name = "ScrubStringMap" -> [out |-> ScrubStringMap(s, arg), err |-> "nil"]
    [] name = "ScrubJSON" -> [out |-> ScrubJSON(s, arg).out, err |-> ScrubJSON(s, arg).err]

AsAlone(r) == [out |-> r.out, err |-> r.err] = Alone(r.call, scrubber, r.arg)

\* C12: whatever the interleaving of the calls that goroutines make on one
\* Scrubber to which no rule is being added, no step of a call changes the
\* Scrubber, and each call gives what it gives when it runs alone.
C12_SharedReadOnly ==
  /\ [](\A p \in Goroutines : routines[p].pc = "done" => AsAlone(routines[p]))
  /\ [][scrubber' = scrubber /\ options' = options]_vars

\* One goroutine is between two fields of its object while the other has
\* gone through a whole call that redacted a field.
C12_Witness ==
  /\ ~scrubber.nil
  /\ routines[1].pc = "running" /\ routines[1].call = "ScrubJSON"
  /\ routines[1].todo = {Other} /\ DOMAIN routines[1].cloned = {Auth}
  /\ routines[2].pc = "done" /\ routines[2].call = "ScrubStringMap"
  /\ routines[2].out = StrMap(Fresh, (Auth :> DefaultReplacement) @@ (Other :> TextV))


-----------------------------------------------------------------------------
(* The order of the rule list (SpecDefaults) *)

\* The rules of the WithRules options of opts, in the order given.
RECURSIVE OptionRules(_)
OptionRules(opts) ==
  IF opts = <<>> THEN <<>>
  ELSE (IF Head(opts).o = "WithRules" THEN Head(opts).rules ELSE <<>>) \o OptionRules(Tail(opts))

\* The rule list is first, then second, then the rules AddRules appended.
InOrder(first, second) ==
  \E n \in 0..MaxRules : scrubber.rules = first \o second \o [i \in 1..n |-> ReplaceOther]

\* C13 (as amended): when default rules are enabled and rules are also given
\* through WithRules, the rules of WithRules come first in the rule list, in
\* the order given, the default rule comes after them, and the rules added
\* later through AddRules come after both.
C13_RuleOrder ==
  (~scrubber.nil /\ pc # "init" /\ scrubber.includeDefaults)
    => InOrder(OptionRules(options), defaultSensitiveRules(scrubber.defaultReplacement))

\* C13 as stated: the default rule first, the rules of WithRules after it.
C13_AsStated ==
  (~scrubber.nil /\ pc # "init" /\ scrubber.includeDefaults)
    => InOrder(defaultSensitiveRules(scrubber.defaultReplacement), OptionRules(options))

\* NewScrubber(WithRules(auth-chained)) and then AddRules(other): the caller's
\* rule, the default rule, the added rule.
C13_Witness ==
  /\ pc = "ready"
  /\ options = <<WithRules(<<ChainAuth>>)>>
  /\ scrubber.rules = <<ChainAuth>> \o defaultSensitiveRules(DefaultReplacement) \o <<ReplaceOther>>


-----------------------------------------------------------------------------
(* A rule without a matcher (SpecRules) *)

\* Rule i of the list has no matcher and has a transform.
Unconditional(rule) == rule.Match.k = "nil" /\ rule.Apply.f # "nil"

\* The loop of applyRules got as far as rule i: no rule applied before it had
\* its chain flag down.
Reached(rules, tr, i) ==
  \A j \in 1..Len(tr) : tr[j].rule < i => rules[tr[j].rule].Continue

\* Rule i was applied at the field ctx, to the working value of that moment,
\* and the loop ended with it when its chain flag is down.
AppliedAt(rules, ctx, tr, i) ==
  \E j \in 1..Len(tr) :
     /\ tr[j].rule = i
     /\ tr[j].gave = Transform(rules[i].Apply, FieldContext(ctx.Path, ctx.Key, tr[j].saw))
     /\ ~rules[i].Continue => j = Len(tr)

\* Rule i left the field alone and the loop went on to the rules after it.
PassedOver(rules, ctx, tr, i) == \A j \in 1..Len(tr) : tr[j].rule # i

\* C14 (as amended): a rule whose matcher is nil matches every field: at every
\* field where the rule loop gets as far as a rule with a nil matcher and a
\* non-nil transform, the transform is applied to the working value, and the
\* rules after it are evaluated only when its chain flag is set.
C14_NilMatcherAlways ==
  (pc = "called" /\ call = "Scrub" /\ ~scrubber.nil)
    => \A e \in evals : \A i \in 1..Len(scrubber.rules) :
          (Unconditional(scrubber.rules[i]) /\ Reached(scrubber.rules, e.applied, i))
            => AppliedAt(scrubber.rules, e.ctx, e.applied, i)

\* C14 as stated: a rule with a nil matcher is applied nowhere.
C14_AsStated ==
  (pc = "called" /\ call = "Scrub" /\ ~scrubber.nil)
    => \A e \in evals : \A i \in 1..Len(scrubber.rules) :
          Unconditional(scrubber.rules[i]) => PassedOver(scrubber.rules, e.ctx, e.applied, i)

\* Under the rule without matcher (not chained) before R1Stop, the object
\* {"a": "v", "n": "x"} came out masked in both fields, a not replaced by x.
C14_Witness ==
  /\ pc = "called" /\ call = "Scrub"
  /\ scrubber.rules = <<MaskAllStop, R1Stop>>
  /\ argSnap = Obj(Fresh, (KeyA :> Str(TextV)) @@ (Other :> Str(TextX)))
  /\ outSnap = Obj(Fresh, (KeyA :> Transform(MaskString(42, 1, 0), FieldContext(<<KeyA>>, KeyA, Str(TextV))))
                          @@ (Other :> Transform(MaskString(42, 1, 0), FieldContext(<<Other>>, Other, Str(TextX)))))


-----------------------------------------------------------------------------
(* The recorder (base_recorder.go) over a Storage: the file storage, the    *)
(* Redis storage, or the stub of the tests.  A payload is the sequence of   *)
(* its bytes; a tag map is a flat string map, shared by identity as the     *)
(* containers above.  The storages work: no file or Redis command fails,    *)
(* and no key expires.                                                      *)

RecordTypeRequest == "request"
RecordTypeResponse == "response"
RecordTypeError == "error"
RecordTypeMetrics == "metrics"

Record(type, primaryID, requestID, payload, tags) ==
  [Type |-> type, PrimaryID |-> primaryID, RequestID |-> requestID,
   Payload |-> payload, Tags |-> tags]

\* The scrub functions given to New: none, one that marks what it is given,
\* one that refuses.
NoScrubFunc == [f |-> "nil"]
MarkingFunc == [f |-> "mark"]
RefusingFunc == [f |-> "refuse"]
Refused == "refused"

\* The options of WithScrubber.
ScrubberFailOnError == [o |-> "ScrubberFailOnError"]
ScrubberSkipTags == [o |-> "ScrubberSkipTags"]

\* cfg after `cfg := scrubberBindingConfig{scrubTags: true}` and the options.
bindingConfig(opts) ==
  [failOnError |-> \E i \in 1..Len(opts) : opts[i] = ScrubberFailOnError,
   scrubTags |-> \A i \in 1..Len(opts) : opts[i] # ScrubberSkipTags]

\* The payloadScrubber and the tagScrubber that WithScrubber sets: closures
\* over the scrubber and cfg.
boundPayloadScrubber(s, cfg) == [f |-> "WithScrubber", scrubber |-> s, failOnError |-> cfg.failOnError]
boundTagScrubber(s, cfg) == IF cfg.scrubTags THEN [f |-> "WithScrubber", scrubber |-> s] ELSE NoScrubFunc

\* New(storage, WithScrubber(scrubber, opts...)): the scrub functions of the
\* recorder; a nil scrubber sets none.
WithScrubber(s, opts) ==
  IF s.nil THEN [payloadScrubber |-> NoScrubFunc, tagScrubber |-> NoScrubFunc]
  ELSE [payloadScrubber |-> boundPayloadScrubber(s, bindingConfig(opts)),
        tagScrubber |-> boundTagScrubber(s, bindingConfig(opts))]

\* A bound payloadScrubber that reports every error of ScrubJSON.
afterScrubJSONFailing(fn, payload, sanitized) ==
  IF sanitized.err # "nil" THEN [out |-> <<>>, err |-> sanitized.err, called |-> TRUE]
  ELSE [out |-> BytesOf(sanitized.out), err |-> "nil", called |-> TRUE]

\* The bound payloadScrubber after `sanitized, err := scrubber.ScrubJSON(payload)`.
afterScrubJSON(fn, payload, sanitized) ==
  IF sanitized.err # "nil"
  THEN (IF fn.failOnError THEN [out |-> <<>>, err |-> sanitized.err, called |-> TRUE]
        ELSE [out |-> payload, err |-> "nil", called |-> TRUE])
  ELSE [out |-> BytesOf(sanitized.out), err |-> "nil", called |-> TRUE]

\* The payloadScrubber that WithScrubber sets.
boundPayload(fn, payload) ==
  IF Len(payload) = 0 THEN [out |-> payload, err |-> "nil", called |-> TRUE]
  ELSE afterScrubJSON(fn, payload, ScrubJSON(fn.scrubber, Bytes(Fresh, payload)))

\* fn(recordType, payload) of a PayloadScrubFunc.
payloadScrubFunc(fn, payload) ==
  IF fn.f = "WithScrubber" THEN boundPayload(fn, payload)
  ELSE IF fn.f = "mark" THEN [out |-> payload \o <<42>>, err |-> "nil", called |-> TRUE]
  ELSE [out |-> <<>>, err |-> Refused, called |-> TRUE]

\* fn(recordType, tags) of a TagScrubFunc: the marking one writes into the map
\* it is given and returns it.
tagScrubFunc(fn, tags) ==
  IF fn.f = "WithScrubber"
  THEN [out |-> ScrubStringMap(fn.scrubber, tags), err |-> "nil", called |-> TRUE]
  ELSE IF fn.f = "mark" THEN [out |-> StrMap(tags.id, PokeMap(tags.sm, <<42>>)), err |-> "nil", called |-> TRUE]
  ELSE [out |-> Nil, err |-> Refused, called |-> TRUE]

\* r.scrubPayload(recordType, payload)
scrubPayload(r, payload) ==
  IF r.payloadScrubber.f = "nil" \/ Len(payload) = 0
  THEN [out |-> payload, err |-> "nil", called |-> FALSE]
  ELSE payloadScrubFunc(r.payloadScrubber, payload)

\* prepareTags after `cloned := cloneTags(tags)`.
preparedFrom(r, cloned) ==
  IF r.tagScrubber.f = "nil" \/ cloned.t = "nil"
  THEN [out |-> cloned, err |-> "nil", called |-> FALSE]
  ELSE tagScrubFunc(r.tagScrubber, cloned)

\* A prepareTags that hands on the caller's own map.
prepareTagsInPlace(r, tags) == preparedFrom(r, tags)

\* r.prepareTags(recordType, tags)
prepareTags(r, tags) == preparedFrom(r, cloneTags(tags))

(* The storages *)

Underscore == <<95>>        \* _
Colon == <<58>>             \* :
RequestIDTag == <<114, 101, 113, 117, 101, 115, 116, 95, 105, 100>>          \* request_id
RecordTypeTag == <<114, 101, 99, 111, 114, 100, 95, 116, 121, 112, 101>>     \* record_type

\* The directory of the file storage for a record type.
filePrefixFor(type) ==
  CASE type = RecordTypeRequest -> "requests"
    [] type = RecordTypeResponse -> "responses"
    [] type = RecordTypeError -> "errors"
    [] type = RecordTypeMetrics -> "metrics"

\* RequestPrefix, ResponsePrefix, ErrorPrefix, MetricsPrefix, as texts.
redisPrefixFor(type) ==
  CASE type = RecordTypeRequest -> <<114, 101, 113, 117, 101, 115, 116>>            \* request
    [] type = RecordTypeResponse -> <<114, 101, 115, 112, 111, 110, 115, 101>>      \* response
    [] type = RecordTypeError -> <<101, 114, 114, 111, 114>>                        \* error
    [] type = RecordTypeMetrics -> <<109, 101, 116, 114, 105, 99, 115>>             \* metrics

\* `id := record.RequestID; if record.PrimaryID != nil && *record.PrimaryID != "" { id = primary + sep + id }`
recordID(record, sep) ==
  IF record.PrimaryID.t # "nil" /\ record.PrimaryID.s # <<>>
  THEN record.PrimaryID.s \o sep \o record.RequestID
  ELSE record.RequestID

SaveFailed(st, record, error) == [err |-> error, st |-> st, tags |-> record.Tags]
Loaded(data) == [data |-> data, err |-> "nil"]
\* The nil []byte is the empty sequence.
LoadFailed(error) == [data |-> <<>>, err |-> error]

EmptyData == "data cannot be nil or empty"
EmptyRequestID == "requestID cannot be empty"

\* fileStorage.Save: the payload goes to <basePath>/<prefix>/<id>.json.
fileSave(st, record) ==
  IF Len(record.Payload) = 0 THEN SaveFailed(st, record, EmptyData)
  ELSE [err |-> "nil",
        st |-> [st EXCEPT !.files = WithMember(@, <<filePrefixFor(record.Type), recordID(record, Underscore)>>,
                                               record.Payload)],
        tags |-> record.Tags]

\* fileStorage.Load
fileLoad(st, type, requestID) ==
  IF <<filePrefixFor(type), requestID>> \in DOMAIN st.files
  THEN Loaded(st.files[<<filePrefixFor(type), requestID>>])
  ELSE LoadFailed("failed to read file")

\* gzip and back.
compressData(data) == [gz |-> data]
decompressData(data) == data.gz

\* `tags := record.Tags; if tags == nil { tags = make(map[string]string) }`
tagsOrMade(tags) == IF tags.t = "nil" THEN StrMap(Fresh, <<>>) ELSE tags

\* `tags["request_id"] = id; tags["record_type"] = prefix`, written into the map.
withRedisTags(tags, id, prefix) ==
  StrMap(tags.id, WithMember(WithMember(tags.sm, RequestIDTag, id), RecordTypeTag, prefix))

\* The key of the set that indexes the tag key=value.
tagKeyOf(key, value) == key \o Colon \o value

\* updateTagIndex: the item key joins the set of each of the tags.
updateTagIndex(index, tags, itemKey) ==
  [tk \in DOMAIN index \cup {tagKeyOf(k, tags.sm[k]) : k \in DOMAIN tags.sm} |->
     (IF tk \in DOMAIN index THEN index[tk] ELSE {})
     \cup (IF \E k \in DOMAIN tags.sm : tk = tagKeyOf(k, tags.sm[k]) THEN {itemKey} ELSE {})]

\* recordData: SET of the key, then the tag index.
recordData(st, prefix, id, compressedData, tags) ==
  [err |-> "nil",
   st |-> [st EXCEPT !.files = WithMember(@, <<prefix, id>>, compressedData),
                     !.index = updateTagIndex(@, tags, <<prefix, id>>)],
   tags |-> tags]

\* redisRecorder.Save
redisSave(st, record) ==
  IF record.RequestID = <<>> THEN SaveFailed(st, record, EmptyRequestID)
  ELSE IF Len(record.Payload) = 0 THEN SaveFailed(st, record, EmptyData)
  ELSE recordData(st, redisPrefixFor(record.Type), recordID(record, Colon),
                  compressData(record.Payload),
                  withRedisTags(tagsOrMade(record.Tags), recordID(record, Colon),
                                redisPrefixFor(record.Type)))

\* redisRecorder.Load
redisLoad(st, type, requestID) ==
  IF requestID = <<>> THEN LoadFailed(EmptyRequestID)
  ELSE IF <<redisPrefixFor(type), requestID>> \in DOMAIN st.files
  THEN Loaded(decompressData(st.files[<<redisPrefixFor(type), requestID>>]))
  ELSE LoadFailed("data not found for id")

\* stubStorage.Save: saveFn returns st.saveErr.
stubSave(st, record) == [err |-> st.saveErr, st |-> st, tags |-> record.Tags]

\* storage.Save(ctx, record): the error, the storage after it, and the tag map
\* of the record as memory holds it after it.
Save(st, record) ==
  CASE st.kind = "file" -> fileSave(st, record)
    [] st.kind = "redis" -> redisSave(st, record)
    [] st.kind = "stub" -> stubSave(st, record)

\* storage.Load(ctx, recordType, requestID)
Load(st, type, requestID) ==
  CASE st.kind = "file" -> fileLoad(st, type, requestID)
    [] st.kind = "redis" -> redisLoad(st, type, requestID)
    [] st.kind = "stub" -> Loaded(<<>>)

\* storage.FindByTag(ctx, tag): the members of the set of the tag.
FindInStorage(st, tag) ==
  CASE st.kind = "file" -> [ids |-> {}, err |-> "FindByTag is not supported"]
    [] st.kind = "redis" -> [ids |-> IF tag \in DOMAIN st.index THEN st.index[tag] ELSE {}, err |-> "nil"]
    [] st.kind = "stub" -> [ids |-> {}, err |-> "nil"]

(* The calls of the recorder.  An outcome is the error returned, the storage *)
(* after the call, the scrub functions invoked, and the record handed to     *)
(* Storage.Save (NotSaved when Save was not invoked).                        *)

NotSaved == [Type |-> "none"]

Outcome(error, st, invoked, saved) ==
  [err |-> error, st |-> st, invoked |-> invoked, saved |-> saved]

Invoked(sp, pt) ==
  (IF sp.called THEN {"payloadScrubber"} ELSE {}) \cup (IF pt.called THEN {"tagScrubber"} ELSE {})

NotPrepared == [called |-> FALSE]

\* `return r.storage.Save(ctx, Record{...})`
saved(record, sp, pt, sv) ==
  Outcome(sv.err, sv.st, Invoked(sp, pt), [record EXCEPT !.Tags = sv.tags])

\* After prepareTags gave pt.
withTags(st, type, primaryID, requestID, sp, pt) ==
  IF pt.err # "nil" THEN Outcome(<<"scrub tags", pt.err>>, st, Invoked(sp, pt), NotSaved)
  ELSE saved(Record(type, primaryID, requestID, sp.out, pt.out), sp, pt,
             Save(st, Record(type, primaryID, requestID, sp.out, pt.out)))

\* After scrubPayload gave sp.
withPayload(r, st, type, primaryID, requestID, tags, sp) ==
  IF sp.err # "nil" THEN Outcome(<<"scrub payload", sp.err>>, st, Invoked(sp, NotPrepared), NotSaved)
  ELSE withTags(st, type, primaryID, requestID, sp, prepareTags(r, tags))

\* The body shared by the four Record* functions once the arguments are valid.
record(r, st, type, primaryID, requestID, payload, tags) ==
  withPayload(r, st, type, primaryID, requestID, tags, scrubPayload(r, payload))

Invalid(st, error) == Outcome(error, st, {}, NotSaved)

\* A RecordRequest that does not look at the request ID.
RecordRequestUnchecked(r, st, primaryID, requestID, request, tags) ==
  IF Len(request) = 0 THEN Invalid(st, "request cannot be nil or empty")
  ELSE record(r, st, RecordTypeRequest, primaryID, requestID, request, tags)

RecordRequest(r, st, primaryID, requestID, request, tags) ==
  IF requestID = <<>> THEN Invalid(st, EmptyRequestID)
  ELSE IF Len(request) = 0 THEN Invalid(st, "request cannot be nil or empty")
  ELSE record(r, st, RecordTypeRequest, primaryID, requestID, request, tags)

RecordResponse(r, st, primaryID, requestID, response, tags) ==
  IF requestID = <<>> THEN Invalid(st, EmptyRequestID)
  ELSE IF Len(response) = 0 THEN Invalid(st, "response cannot be nil or empty")
  ELSE record(r, st, RecordTypeResponse, primaryID, requestID, response, tags)

\* error is Nil (the nil error) or Str(text), text being err.Error().
RecordError(r, st, id, requestID, error, tags) ==
  IF error.t = "nil" THEN Invalid(st, "error cannot be nil")
  ELSE IF requestID = <<>> THEN Invalid(st, EmptyRequestID)
  ELSE record(r, st, RecordTypeError, id, requestID, error.s, tags)

\* metrics is a map[string]string or Nil (the nil map).
RecordMetrics(r, st, primaryID, requestID, metrics, tags) ==
  IF requestID = <<>> THEN Invalid(st, EmptyRequestID)
  ELSE IF metrics.t = "nil" \/ DOMAIN metrics.sm = {} THEN Invalid(st, "metrics cannot be nil or empty")
  ELSE record(r, st, RecordTypeMetrics, primaryID, requestID, Marshal(genericOf(metrics)), tags)

NotLoaded(error) == [data |-> <<>>, err |-> error, loaded |-> FALSE]
loadedFrom(l) == [data |-> l.data, err |-> l.err, loaded |-> TRUE]

GetRequest(st, requestID) ==
  IF requestID = <<>> THEN NotLoaded(EmptyRequestID)
  ELSE loadedFrom(Load(st, RecordTypeRequest, requestID))

GetResponse(st, requestID) ==
  IF requestID = <<>> THEN NotLoaded(EmptyRequestID)
  ELSE loadedFrom(Load(st, RecordTypeResponse, requestID))

FindByTag(st, tag) ==
  IF tag = <<>> THEN [ids |-> {}, err |-> "tag cannot be empty", loaded |-> FALSE]
  ELSE [ids |-> FindInStorage(st, tag).ids, err |-> FindInStorage(st, tag).err, loaded |-> TRUE]

-----------------------------------------------------------------------------
(* Calls on a recorder (SpecRecorder): a recorder is built over one of the  *)
(* storages, and the caller makes call after call, and may write into the   *)
(* tag map it passed.  latest remembers, for requests and responses and for *)
(* each request ID, the payload of the last call that returned no error.    *)

NoCall ==
  [op |-> "none", type |-> "none", primaryID |-> Nil, requestID |-> <<>>, arg |-> Nil, tags |-> Nil,
   err |-> "nil", data |-> <<>>, ids |-> {}, invoked |-> {}, saved |-> NotSaved,
   tagsSnap |-> Nil, savedTags |-> Nil, reached |-> FALSE, latest |-> <<>>]

\* The caller's tag map after the call: what the call wrote into the map
\* handed to Storage.Save shows in the caller's map when it is the same map.
tagsAfter(tags, o) == IF o.saved = NotSaved THEN tags ELSE Sync(tags, o.saved.Tags)

latestAfter(latest, type, requestID, o) ==
  IF o.err = "nil" /\ o.saved # NotSaved /\ type \in {RecordTypeRequest, RecordTypeResponse}
  THEN WithMember(latest, <<type, requestID>>, o.saved.Payload)
  ELSE latest

\* The call op(primaryID, requestID, arg, tags) of record type `type` had the
\* outcome o.
Recorded(op, type, primaryID, requestID, arg, tags, o) ==
  /\ pc = "recorder"
  /\ storage' = o.st
  /\ rec' = [NoCall EXCEPT !.op = op, !.type = type, !.primaryID = primaryID,
                           !.requestID = requestID, !.arg = arg, !.tags = tagsAfter(tags, o),
                           !.tagsSnap = DeepCopy(tags),
                           !.err = o.err, !.invoked = o.invoked, !.saved = o.saved,
                           !.savedTags = IF o.saved = NotSaved THEN Nil ELSE DeepCopy(o.saved.Tags),
                           !.reached = o.saved # NotSaved,
                           !.latest = latestAfter(rec.latest, type, requestID, o)]
  /\ UNCHANGED <<scrubVars, inMemory, walk, routines, recorder>>

\* err := rec.RecordRequest(ctx, primaryID, requestID, request, tags)
DoRecordRequest(primaryID, requestID, request, tags) ==
  Recorded("RecordRequest", RecordTypeRequest, primaryID, requestID, request, tags,
           RecordRequest(recorder, storage, primaryID, requestID, request, tags))

\* err := rec.RecordResponse(ctx, primaryID, requestID, response, tags)
DoRecordResponse(primaryID, requestID, response, tags) ==
  Recorded("RecordResponse", RecordTypeResponse, primaryID, requestID, response, tags,
           RecordResponse(recorder, storage, primaryID, requestID, response, tags))

\* err := rec.RecordError(ctx, id, requestID, error, tags)
DoRecordError(id, requestID, error, tags) ==
  Recorded("RecordError", RecordTypeError, id, requestID, error, tags,
           RecordError(recorder, storage, id, requestID, error, tags))

\* err := rec.RecordMetrics(ctx, primaryID, requestID, metrics, tags)
DoRecordMetrics(primaryID, requestID, metrics, tags) ==
  Recorded("RecordMetrics", RecordTypeMetrics, primaryID, requestID, metrics, tags,
           RecordMetrics(recorder, storage, primaryID, requestID, metrics, tags))

\* The call op(requestID) gave l.
Got(op, type, requestID, l) ==
  /\ pc = "recorder"
  /\ rec' = [NoCall EXCEPT !.op = op, !.type = type, !.requestID = requestID,
                           !.err = l.err, !.data = l.data, !.reached = l.loaded,
                           !.latest = rec.latest]
  /\ UNCHANGED <<scrubVars, inMemory, walk, routines, recorder, storage>>

\* data, err := rec.GetRequest(ctx, requestID)
DoGetRequest(requestID) ==
  Got("GetRequest", RecordTypeRequest, requestID, GetRequest(storage, requestID))

\* data, err := rec.GetResponse(ctx, requestID)
DoGetResponse(requestID) ==
  Got("GetResponse", RecordTypeResponse, requestID, GetResponse(storage, requestID))

\* ids, err := rec.FindByTag(ctx, tag)
DoFindByTag(tag) ==
  /\ pc = "recorder"
  /\ rec' = [NoCall EXCEPT !.op = "FindByTag", !.requestID = tag,
                           !.err = FindByTag(storage, tag).err, !.ids = FindByTag(storage, tag).ids,
                           !.reached = FindByTag(storage, tag).loaded,
                           !.latest = rec.latest]
  /\ UNCHANGED <<scrubVars, inMemory, walk, routines, recorder, storage>>

\* originalTags["!"] = "!" after the call.
MutateTags ==
  /\ pc = "recorder"
  /\ rec.op \in {"RecordRequest", "RecordResponse", "RecordError", "RecordMetrics"}
  /\ rec.tags.t # "nil"
  /\ rec' = [rec EXCEPT !.op = "wroteTags", !.tags = Poke(rec.tags),
                        !.saved = IF rec.saved = NotSaved THEN NotSaved
                                  ELSE [rec.saved EXCEPT !.Tags = Sync(@, Poke(rec.tags))]]
  /\ UNCHANGED <<scrubVars, inMemory, walk, routines, recorder, storage>>

ReqR == <<114>>             \* r
PrimP == <<112>>            \* p

RequestIDs == {<<>>, ReqR}
PrimaryIDs == {Nil, Str(<<>>), Str(PrimP)}
Payloads == {<<>>, <<49>>, <<50>>}                                            \* "", "1", "2"
TagMaps == {Nil, StrMap(<<>>, <<>>), StrMap(<<>>, (Other :> TextV))}
Errs == {Nil, Str(<<>>), Str(<<101>>)}                                        \* nil, errors.New(""), errors.New("e")
MetricMaps == {Nil, StrMap(<<>>, <<>>), StrMap(<<>>, (Other :> TextV))}
FindTags == {<<>>, tagKeyOf(Other, TextV), tagKeyOf(RequestIDTag, ReqR)}

EmptyStorage(kind, saveErr) == [kind |-> kind, files |-> <<>>, index |-> <<>>, saveErr |-> saveErr]

\* The stub of the tests, its saveFn returning nil or an error.
StubStorages == {EmptyStorage("stub", "nil"), EmptyStorage("stub", "boom")}

ScrubFuncs == {NoScrubFunc, MarkingFunc, RefusingFunc}

StubRecorders == {[payloadScrubber |-> p, tagScrubber |-> t] : p \in ScrubFuncs, t \in ScrubFuncs}

\* rec := New(storage, opts...)
NewOver(storages, recorders) ==
  /\ scrubber = NilScrubber
  /\ options = <<>>
  /\ pc = "recorder"
  /\ call = "none"
  /\ params = <<>>
  /\ input = Nil
  /\ output = Nil
  /\ err = "nil"
  /\ argSnap = Nil
  /\ outSnap = Nil
  /\ evals = {}
  /\ routines = <<>>
  /\ storage \in storages
  /\ recorder \in recorders
  /\ rec = NoCall
  /\ inMemory = <<>>
  /\ walk = <<>>

\* The stub whose saveFn fails stands behind a recorder without scrub functions.
InitRecorder ==
  /\ NewOver(StubStorages, StubRecorders)
  /\ storage.saveErr # "nil" => recorder = [payloadScrubber |-> NoScrubFunc, tagScrubber |-> NoScrubFunc]

NextRecorder ==
  \/ \E p \in PrimaryIDs, r \in RequestIDs, d \in Payloads, t \in TagMaps : DoRecordRequest(p, r, d, t)
  \/ \E p \in PrimaryIDs, r \in RequestIDs, d \in {<<>>, <<49>>}, t \in TagMaps : DoRecordResponse(p, r, d, t)
  \/ \E r \in RequestIDs, e \in Errs, t \in TagMaps : DoRecordError(Nil, r, e, t)
  \/ \E r \in RequestIDs, m \in MetricMaps, t \in TagMaps : DoRecordMetrics(Nil, r, m, t)
  \/ \E r \in RequestIDs : DoGetRequest(r)
  \/ \E r \in RequestIDs : DoGetResponse(r)
  \/ \E tag \in FindTags : DoFindByTag(tag)
  \/ MutateTags

SpecRecorder == InitRecorder /\ [][NextRecorder]_vars

-----------------------------------------------------------------------------
(* Records kept and read back (SpecStored): a recorder without scrub        *)
(* functions over the file storage or the Redis storage.                    *)

InitStored ==
  NewOver({EmptyStorage("file", "nil"), EmptyStorage("redis", "nil")},
          {[payloadScrubber |-> NoScrubFunc, tagScrubber |-> NoScrubFunc]})

NextStored ==
  \/ \E p \in PrimaryIDs, r \in RequestIDs, d \in Payloads, t \in TagMaps : DoRecordRequest(p, r, d, t)
  \/ \E p \in PrimaryIDs, r \in RequestIDs, d \in {<<>>, <<49>>} : DoRecordResponse(p, r, d, Nil)
  \/ \E r \in RequestIDs : DoGetRequest(r)
  \/ \E r \in RequestIDs : DoGetResponse(r)
  \/ \E tag \in FindTags : DoFindByTag(tag)
  \/ MutateTags

SpecStored == InitStored /\ [][NextStored]_vars


-----------------------------------------------------------------------------
(* Reading back what was recorded (SpecStored) *)

\* C15 as stated: on the file storage and on the Redis storage, once
\* RecordRequest or RecordResponse has returned no error for a request ID,
\* with any primary ID (nil, empty or not), GetRequest or GetResponse for that
\* request ID returns the payload of the last such record.
C15_AsStated ==
  /\ (rec.op \in {"RecordRequest", "RecordResponse"} /\ rec.err = "nil")
       => Load(storage, rec.type, rec.requestID) = Loaded(rec.saved.Payload)
  /\ (rec.op \in {"GetRequest", "GetResponse"} /\ rec.reached
      /\ <<rec.type, rec.requestID>> \in DOMAIN rec.latest)
       => rec.err = "nil" /\ rec.data = rec.latest[<<rec.type, rec.requestID>>]

\* RecordRequest(p, r, "1") returned no error on the file storage, the payload
\* stands under p_r alone, and GetRequest(r) returned an error.
C15_Lost ==
  /\ storage.kind = "file"
  /\ storage.files = (<<"requests", PrimP \o Underscore \o ReqR>> :> <<49>>)
  /\ rec.op = "GetRequest" /\ rec.requestID = ReqR
  /\ rec.latest = (<<RecordTypeRequest, ReqR>> :> <<49>>)
  /\ rec.err # "nil"


-----------------------------------------------------------------------------
(* Validation of the arguments (SpecRecorder) *)

RecordOps == {"RecordRequest", "RecordResponse", "RecordError", "RecordMetrics"}

\* The last call was a Record* call with an argument the function refuses: an
\* empty request ID, an empty payload, a nil error, empty metrics.
InvalidRecord ==
  /\ rec.op \in RecordOps
  /\ \/ rec.requestID = <<>>
     \/ rec.op \in {"RecordRequest", "RecordResponse"} /\ Len(rec.arg) = 0
     \/ rec.op = "RecordError" /\ rec.arg.t = "nil"
     \/ rec.op = "RecordMetrics" /\ (rec.arg.t = "nil" \/ DOMAIN rec.arg.sm = {})

\* The last call was a read with an empty request ID or an empty tag.
InvalidRead == rec.op \in {"GetRequest", "GetResponse", "FindByTag"} /\ rec.requestID = <<>>

\* C16: a Record* call with an invalid argument returns an error and invokes
\* neither Storage.Save nor a payload or tag scrub function; GetRequest and
\* GetResponse with an empty request ID and FindByTag with an empty tag return
\* an error without invoking the storage; and when the arguments are valid and
\* Storage.Save is invoked, the caller gets the error that Save returned.
C16_Validation ==
  /\ InvalidRecord => (rec.err # "nil" /\ ~rec.reached /\ rec.invoked = {})
  /\ InvalidRead => (rec.err # "nil" /\ ~rec.reached)
  /\ (rec.op \in RecordOps /\ ~InvalidRecord /\ recorder.payloadScrubber.f # "refuse"
      /\ (recorder.tagScrubber.f # "refuse" \/ cloneTags(rec.tags).t = "nil"))
       => (rec.reached /\ rec.err = storage.saveErr)

\* RecordError(nil, "r", nil, {"n": "v"}) on a recorder with scrub functions
\* returned "error cannot be nil" and invoked nothing.
C16_Witness ==
  /\ recorder = [payloadScrubber |-> MarkingFunc, tagScrubber |-> MarkingFunc]
  /\ rec.op = "RecordError" /\ rec.requestID = ReqR /\ rec.arg = Nil
  /\ rec.tags = StrMap(<<>>, (Other :> TextV))
  /\ rec.err = "error cannot be nil" /\ ~rec.reached /\ rec.invoked = {}

-----------------------------------------------------------------------------
(* The tag map of a record (SpecStored) *)

\* C17: the tag map of the record handed to Storage.Save is never the map the
\* caller passed; what the storage writes into it (the Redis storage adds
\* request_id and record_type) leaves the caller's map as it was; and what the
\* caller writes into its map afterwards leaves the tags of the record as they
\* were.
C17_TagsCloned ==
  /\ (rec.reached /\ rec.op \in RecordOps \cup {"wroteTags"} /\ rec.tags.t # "nil"
      /\ rec.saved.Tags.t # "nil")
       => rec.saved.Tags.id # rec.tags.id
  /\ rec.op \in RecordOps => DeepCopy(rec.tags) = rec.tagsSnap
  /\ (rec.op = "wroteTags" /\ rec.reached) => DeepCopy(rec.saved.Tags) = rec.savedTags

\* RecordRequest(nil, "r", "1", {"n": "v"}) on the Redis storage, then the
\* caller wrote "!" into its map: the record holds n, request_id and
\* record_type, the caller's map n and "!".
C17_Witness ==
  /\ storage.kind = "redis"
  /\ rec.op = "wroteTags" /\ rec.reached
  /\ rec.tags = StrMap(<<>>, (Other :> TextV) @@ (Poked :> Poked))
  /\ rec.saved.Tags = StrMap(Fresh, (Other :> TextV) @@ (RequestIDTag :> ReqR)
                                    @@ (RecordTypeTag :> redisPrefixFor(RecordTypeRequest)))

-----------------------------------------------------------------------------
(* The asynchronous wrapper (SpecAsync): each call makes a channel, starts  *)
(* a goroutine that makes the synchronous call and sends what it returned,  *)
(* and returns the channel.  The caller may receive from the channel, or    *)
(* never do so.  The recorder stands over the file storage.                 *)

Tasks == {1, 2}

\* A channel no send can be buffered in.
makeUnbuffered == [cap |-> 0, buf |-> <<>>]

\* make(chan T, 1)
makeChan == [cap |-> 1, buf |-> <<>>]

\* A call of the wrapper; a payload is carried as a []byte buffer.
AsyncCall(op, primaryID, requestID, arg, tags) ==
  [op |-> op, primaryID |-> primaryID, requestID |-> requestID, arg |-> arg, tags |-> tags]

NoTask ==
  [pc |-> "none", c |-> AsyncCall("none", Nil, <<>>, Nil, Nil), ch |-> [cap |-> 0, buf |-> <<>>],
   value |-> [Err |-> "nil"], before |-> EmptyStorage("none", "nil"), got |-> <<>>]

\* What the goroutine computes: the value for the channel and the storage
\* after the synchronous call.
ofRecord(o) == [value |-> [Err |-> o.err], st |-> o.st]
ofGet(l, st) == [value |-> [Data |-> l.data, Err |-> l.err], st |-> st]
ofFind(f, st) == [value |-> [Tags |-> f.ids, Err |-> f.err], st |-> st]

\* ar.base.<op>(ctx, ...) inside the goroutine of the call c.
background(r, st, c) ==
  CASE c.op = "RecordRequest" -> ofRecord(RecordRequest(r, st, c.primaryID, c.requestID, BytesOf(c.arg), c.tags))
    [] c.op = "RecordResponse" -> ofRecord(RecordResponse(r, st, c.primaryID, c.requestID, BytesOf(c.arg), c.tags))
    [] c.op = "RecordError" -> ofRecord(RecordError(r, st, c.primaryID, c.requestID, c.arg, c.tags))
    [] c.op = "RecordMetrics" -> ofRecord(RecordMetrics(r, st, c.primaryID, c.requestID, c.arg, c.tags))
    [] c.op = "GetRequest" -> ofGet(GetRequest(st, c.requestID), st)
    [] c.op = "GetResponse" -> ofGet(GetResponse(st, c.requestID), st)
    [] c.op = "FindByTag" -> ofFind(FindByTag(st, c.requestID), st)

\* ch := async.<op>(ctx, ...): the channel is made, the goroutine started, the
\* channel returned.
Go(g, c) ==
  /\ pc = "async"
  /\ routines[g].pc = "none"
  /\ routines' = [routines EXCEPT ![g] = [NoTask EXCEPT !.pc = "started", !.c = c, !.ch = makeChan]]
  /\ UNCHANGED <<scrubVars, inMemory, walk, recVars>>

\* The goroutine makes the synchronous call.
Run(g) ==
  /\ routines[g].pc = "started"
  /\ storage' = background(recorder, storage, routines[g].c).st
  /\ routines' = [routines EXCEPT ![g].pc = "computed",
                                  ![g].value = background(recorder, storage, routines[g].c).value,
                                  ![g].before = storage]
  /\ UNCHANGED <<scrubVars, inMemory, walk, recorder, rec>>

\* `result <- value`: goes through when the channel has room.
Send(g) ==
  /\ routines[g].pc = "computed"
  /\ Len(routines[g].ch.buf) < routines[g].ch.cap
  /\ routines' = [routines EXCEPT ![g].pc = "done", ![g].ch.buf = Append(@, routines[g].value)]
  /\ UNCHANGED <<scrubVars, inMemory, walk, recVars>>

\* v := <-ch in the caller.
Receive(g) ==
  /\ routines[g].ch.buf # <<>>
  /\ routines' = [routines EXCEPT ![g].ch.buf = Tail(@), ![g].got = Append(@, Head(routines[g].ch.buf))]
  /\ UNCHANGED <<scrubVars, inMemory, walk, recVars>>

AsyncCalls ==
  {AsyncCall("RecordRequest", Nil, r, Bytes(<<>>, <<49>>), Nil) : r \in RequestIDs}
  \cup {AsyncCall("RecordResponse", Nil, ReqR, Bytes(<<>>, <<50>>), Nil),
        AsyncCall("RecordError", Nil, ReqR, Str(<<101>>), Nil),
        AsyncCall("RecordMetrics", Nil, ReqR, StrMap(<<>>, (Other :> TextV)), Nil),
        AsyncCall("GetRequest", Nil, ReqR, Nil, Nil),
        AsyncCall("GetResponse", Nil, ReqR, Nil, Nil),
        AsyncCall("FindByTag", Nil, Other, Nil, Nil)}

InitAsync ==
  /\ scrubber = NilScrubber
  /\ options = <<>>
  /\ pc = "async"
  /\ call = "none"
  /\ params = <<>>
  /\ input = Nil
  /\ output = Nil
  /\ err = "nil"
  /\ argSnap = Nil
  /\ outSnap = Nil
  /\ evals = {}
  /\ routines = [g \in Tasks |-> NoTask]
  /\ storage = EmptyStorage("file", "nil")
  /\ recorder = [payloadScrubber |-> NoScrubFunc, tagScrubber |-> NoScrubFunc]
  /\ rec = NoCall
  /\ inMemory = <<>>
  /\ walk = <<>>

NextAsync ==
  \/ \E g \in Tasks : \E c \in AsyncCalls : Go(g, c)
  \/ \E g \in Tasks : Run(g)
  \/ \E g \in Tasks : Send(g)
  \/ \E g \in Tasks : Receive(g)

\* A started goroutine is scheduled: it makes its call, and it sends when the
\* channel lets it.  Nothing makes the caller receive.
SpecAsync ==
  /\ InitAsync
  /\ [][NextAsync]_vars
  /\ \A g \in Tasks : WF_vars(Run(g)) /\ WF_vars(Send(g))

\* What the synchronous call of c returns on the storage st.
Synchronous(c, st) ==
  CASE c.op = "RecordRequest" -> [Err |-> RecordRequest(recorder, st, c.primaryID, c.requestID, BytesOf(c.arg), c.tags).err]
    [] c.op = "RecordResponse" -> [Err |-> RecordResponse(recorder, st, c.primaryID, c.requestID, BytesOf(c.arg), c.tags).err]
    [] c.op = "RecordError" -> [Err |-> RecordError(recorder, st, c.primaryID, c.requestID, c.arg, c.tags).err]
    [] c.op = "RecordMetrics" -> [Err |-> RecordMetrics(recorder, st, c.primaryID, c.requestID, c.arg, c.tags).err]
    [] c.op = "GetRequest" -> [Data |-> GetRequest(st, c.requestID).data, Err |-> GetRequest(st, c.requestID).err]
    [] c.op = "GetResponse" -> [Data |-> GetResponse(st, c.requestID).data, Err |-> GetResponse(st, c.requestID).err]
    [] c.op = "FindByTag" -> [Tags |-> FindByTag(st, c.requestID).ids, Err |-> FindByTag(st, c.requestID).err]

\* What has come through the channel of task t so far.
Delivered(t) == t.got \o t.ch.buf

\* C18: every call of the asynchronous wrapper returns its channel without
\* touching the storage; a goroutine that has been started always comes to
\* its end, whether or not the caller ever receives, because its send never
\* waits; and what comes through the channel is one value, none before the
\* goroutine has sent, and that value is what the synchronous call returned
\* on the storage as the goroutine found it.
C18_AsyncDelivers ==
  /\ [][\A g \in Tasks : (routines[g].pc = "none" /\ routines'[g].pc = "started") => storage' = storage]_vars
  /\ [](\A g \in Tasks :
          /\ Len(Delivered(routines[g])) = (IF routines[g].pc = "done" THEN 1 ELSE 0)
          /\ routines[g].pc = "done"
               => Delivered(routines[g]) = <<Synchronous(routines[g].c, routines[g].before)>>)
  /\ \A g \in Tasks : (routines[g].pc = "started") ~> (routines[g].pc = "done")

\* GetRequest was started before RecordRequest and ran after it: its
\* goroutine has ended with the payload in the channel, nothing received.
C18_Witness ==
  /\ routines[1].pc = "done" /\ routines[1].c.op = "GetRequest"
  /\ routines[1].ch.buf = <<[Data |-> <<49>>, Err |-> "nil"]>> /\ routines[1].got = <<>>
  /\ routines[2].pc = "done" /\ routines[2].c.op = "RecordRequest"
  /\ routines[2].got = <<[Err |-> "nil"]>>

-----------------------------------------------------------------------------
(* The in-memory metrics (metrics.go, SpecMetrics).  A key is a text; the   *)
(* range over the tag map in buildKey visits the tags in any order.         *)

MaxCount == 2    \* highest value of a counter, longest histogram

Comma == <<44>>             \* ,
Equals == <<61>>            \* =

\* The orders in which a range over a map with the keys S can visit them.
Orders(S) == {o \in [1..Cardinality(S) -> S] : \A i, j \in 1..Cardinality(S) : o[i] = o[j] => i = j}

\* `for k, v := range tags { key += "," + k + "=" + v }`, the range visiting
\* the keys in the order given.
RECURSIVE buildKeyFrom(_, _, _)
buildKeyFrom(key, tags, order) ==
  IF order = <<>> THEN key
  ELSE buildKeyFrom(key \o Comma \o Head(order) \o Equals \o tags[Head(order)], tags, Tail(order))

\* m.buildKey(name, tags): tags is a map[string]string or Nil (the nil map).
buildKey(name, tags, order) ==
  IF tags.t = "nil" THEN name ELSE buildKeyFrom(name, tags.sm, order)

\* The orders of a range over tags.
RangeOrders(tags) == IF tags.t = "nil" THEN {<<>>} ELSE Orders(DOMAIN tags.sm)

\* m.counters[key]++
incremented(counters, key) ==
  WithMember(counters, key, IF key \in DOMAIN counters THEN counters[key] + 1 ELSE 1)

\* m.histograms[key] = append(m.histograms[key], value)
appended(histograms, key, value) ==
  WithMember(histograms, key, IF key \in DOMAIN histograms THEN Append(histograms[key], value) ELSE <<value>>)

\* m := NewMetrics()
NewMetrics == [counters |-> <<>>, gauges |-> <<>>, histograms |-> <<>>]

\* m.IncrementCounter(name, tags)
IncrementCounter(name, tags) ==
  /\ pc = "metrics"
  /\ \E order \in RangeOrders(tags) :
        /\ buildKey(name, tags, order) \in DOMAIN inMemory.counters
             => inMemory.counters[buildKey(name, tags, order)] < MaxCount
        /\ inMemory' = [inMemory EXCEPT !.counters = incremented(@, buildKey(name, tags, order))]
  /\ UNCHANGED <<scrubVars, routines, recVars, walk>>

\* m.SetGauge(name, value, tags)
SetGauge(name, value, tags) ==
  /\ pc = "metrics"
  /\ \E order \in RangeOrders(tags) :
        inMemory' = [inMemory EXCEPT !.gauges = WithMember(@, buildKey(name, tags, order), value)]
  /\ UNCHANGED <<scrubVars, routines, recVars, walk>>

\* m.RecordHistogram(name, value, tags)
RecordHistogram(name, value, tags) ==
  /\ pc = "metrics"
  /\ \E order \in RangeOrders(tags) :
        /\ buildKey(name, tags, order) \in DOMAIN inMemory.histograms
             => Len(inMemory.histograms[buildKey(name, tags, order)]) < MaxCount
        /\ inMemory' = [inMemory EXCEPT !.histograms = appended(@, buildKey(name, tags, order), value)]
  /\ UNCHANGED <<scrubVars, routines, recVars, walk>>

Requests == <<114, 101, 113, 117, 101, 115, 116, 115>>          \* requests
KeyB == <<98>>                                                 \* b

\* nil, {"a": "1", "b": "2"}
MetricTags == {Nil, StrMap(<<>>, (KeyA :> <<49>>) @@ (KeyB :> <<50>>))}

InitMetrics ==
  /\ scrubber = NilScrubber
  /\ options = <<>>
  /\ pc = "metrics"
  /\ call = "none"
  /\ params = <<>>
  /\ input = Nil
  /\ output = Nil
  /\ err = "nil"
  /\ argSnap = Nil
  /\ outSnap = Nil
  /\ evals = {}
  /\ routines = <<>>
  /\ recorder = <<>>
  /\ storage = <<>>
  /\ rec = <<>>
  /\ inMemory = NewMetrics
  /\ walk = <<>>

NextMetrics ==
  \/ \E tags \in MetricTags : IncrementCounter(Requests, tags)
  \/ \E tags \in MetricTags : SetGauge(Requests, 1, tags)
  \/ \E tags \in MetricTags : RecordHistogram(Requests, 1, tags)

SpecMetrics == InitMetrics /\ [][NextMetrics]_vars

\* The key the name and the tags stand for: the tags in the order of their keys.
SortedKey(name, tags) ==
  IF tags.t = "nil" THEN name ELSE buildKeyFrom(name, tags.sm, SortedTexts(DOMAIN tags.sm))

\* C19 as stated: the key of a metric is its name followed by the tags in the
\* order of their keys, so that one name with one set of tags has one key:
\* after IncrementCounter("requests", {"b": "2", "a": "1"}) and
\* IncrementCounter("requests", {"a": "1", "b": "2"}) there is the single
\* counter "requests,a=1,b=2".
C19_AsStated ==
  \A key \in DOMAIN inMemory.counters \cup DOMAIN inMemory.gauges \cup DOMAIN inMemory.histograms :
     \E tags \in MetricTags : key = SortedKey(Requests, tags)

\* After the two calls there are two counters of 1, "requests,a=1,b=2" and
\* "requests,b=2,a=1".
C19_Split ==
  /\ DOMAIN inMemory.counters =
       {Requests \o <<44, 97, 61, 49, 44, 98, 61, 50>>, Requests \o <<44, 98, 61, 50, 44, 97, 61, 49>>}
  /\ \A key \in DOMAIN inMemory.counters : inMemory.counters[key] = 1
  /\ inMemory.gauges = <<>> /\ inMemory.histograms = <<>>

-----------------------------------------------------------------------------
(* The GORM storage (SpecGorm).  The database is the table of the records,  *)
(* a row's ID being its position, and the table of the tag rows.  The tree  *)
(* holds two gormStorage.Save: the one of gorm_recorder/recorder.go, one    *)
(* transaction, and the one that retries on deadlocks and saves the record  *)
(* and the tags in two transactions; a storage is built from either.  A     *)
(* statement of a transaction may fail; a deadlock is not told apart from   *)
(* another failure, so that a failed Save is not retried.                   *)

DBFailed == "db"
EmptyPayload == "gorm recorder: payload cannot be empty"
RecordNotFound == "record not found"

\* db.AutoMigrate(...) on an empty database.
NewGorm(optimized) == [kind |-> "gorm", optimized |-> optimized, records |-> <<>>, tags |-> <<>>]

\* tx.Where({type, request_id}).First(model): the ID of the first row of the
\* record type and request ID, 0 for gorm.ErrRecordNotFound.
First(records, type, requestID) ==
  IF \E i \in 1..Len(records) : records[i].Type = type /\ records[i].RequestID = requestID
  THEN CHOOSE i \in 1..Len(records) :
         /\ records[i].Type = type /\ records[i].RequestID = requestID
         /\ \A j \in 1..(i - 1) : ~(records[j].Type = type /\ records[j].RequestID = requestID)
  ELSE 0

\* model.SetPrimaryID(record.PrimaryID); model.SetPayload(record.Payload);
\* tx.Save(model), the model being the row id, or a new row when id is 0.
savedModel(records, id, rcd) ==
  IF id = 0
  THEN Append(records, [Type |-> rcd.Type, RequestID |-> rcd.RequestID,
                        PrimaryID |-> DeepCopy(rcd.PrimaryID), Payload |-> rcd.Payload])
  ELSE [records EXCEPT ![id].PrimaryID = DeepCopy(rcd.PrimaryID), ![id].Payload = rcd.Payload]

\* model.GetID() after tx.Save(model)
modelID(records, id) == IF id = 0 THEN Len(records) + 1 ELSE id

\* tx.Where({record_id: recordID}).Delete(tagModel)
deleteTags(rows, id) == SelectSeq(rows, LAMBDA row : row.RecordID # id)

\* The tag rows of the tags, in the order given.
RECURSIVE tagModels(_, _, _)
tagModels(id, tags, order) ==
  IF order = <<>> THEN <<>>
  ELSE <<[RecordID |-> id, Key |-> Head(order), Value |-> tags[Head(order)]]>>
         \o tagModels(id, tags, Tail(order))

\* len(record.Tags) > 0
hasTags(tags) == tags.t # "nil" /\ DOMAIN tags.sm # {}

\* gormStorage.Save of gorm_recorder/recorder.go: one transaction, rolled
\* back when a statement fails; the range over record.Tags visits the tags in
\* the order given.
gormSave(db, rcd, order, fault) ==
  IF Len(rcd.Payload) = 0 THEN [err |-> EmptyPayload, st |-> db]
  ELSE IF fault # "none" THEN [err |-> DBFailed, st |-> db]
  ELSE [err |-> "nil",
        st |-> [db EXCEPT
                  !.records = savedModel(@, First(db.records, rcd.Type, rcd.RequestID), rcd),
                  !.tags = deleteTags(@, modelID(db.records, First(db.records, rcd.Type, rcd.RequestID)))
                             \o IF hasTags(rcd.Tags)
                                THEN tagModels(modelID(db.records, First(db.records, rcd.Type, rcd.RequestID)),
                                               rcd.Tags.sm, order)
                                ELSE <<>>]]

\* s.saveRecord(ctx, record): the record's row in a transaction of its own.
saveRecord(db, rcd, fault) ==
  IF fault = "record" THEN [err |-> DBFailed, st |-> db, recordID |-> 0]
  ELSE [err |-> "nil",
        st |-> [db EXCEPT !.records = savedModel(@, First(db.records, rcd.Type, rcd.RequestID), rcd)],
        recordID |-> modelID(db.records, First(db.records, rcd.Type, rcd.RequestID))]

\* s.saveTags(ctx, recordID, tags): the rows of the record are deleted and
\* the tags inserted in the order of their keys, in one transaction.
saveTags(db, id, tags, fault) ==
  IF fault = "tags" THEN [err |-> DBFailed, st |-> db]
  ELSE [err |-> "nil",
        st |-> [db EXCEPT !.tags = deleteTags(@, id)
                                     \o IF hasTags(tags)
                                        THEN tagModels(id, tags.sm, SortedTexts(DOMAIN tags.sm))
                                        ELSE <<>>]]

\* saveTags as saveWithOptimizedTransaction calls it: `if len(record.Tags) > 0
\* { return s.saveTags(ctx, recordID, record.Tags) }; return nil`.
tagsStep(sr, rcd, fault) ==
  IF sr.err # "nil" THEN [err |-> sr.err, st |-> sr.st]
  ELSE IF hasTags(rcd.Tags) THEN saveTags(sr.st, sr.recordID, rcd.Tags, fault)
  ELSE [err |-> "nil", st |-> sr.st]

\* s.saveWithOptimizedTransaction(ctx, record)
saveWithOptimizedTransaction(db, rcd, fault) == tagsStep(saveRecord(db, rcd, fault), rcd, fault)

\* gormStorage.Save with the two transactions.
gormSaveOptimized(db, rcd, fault) ==
  IF Len(rcd.Payload) = 0 THEN [err |-> EmptyPayload, st |-> db]
  ELSE saveWithOptimizedTransaction(db, rcd, fault)

\* gormStorage.Load
gormLoad(db, type, requestID) ==
  IF First(db.records, type, requestID) = 0 THEN LoadFailed(RecordNotFound)
  ELSE IF Len(db.records[First(db.records, type, requestID)].Payload) = 0 THEN LoadFailed("empty payload")
  ELSE Loaded(db.records[First(db.records, type, requestID)].Payload)

\* string(recordType)
typeText(type) == redisPrefixFor(type)

\* gormStorage.FindByTag(key ":" value): "<type>:<request id>" of the records
\* joined to a tag row of the key and the value.
gormFindByTag(db, key, value) ==
  {typeText(db.records[row.RecordID].Type) \o Colon \o db.records[row.RecordID].RequestID :
     row \in {db.tags[i] : i \in {j \in 1..Len(db.tags) :
                                    /\ db.tags[j].Key = key /\ db.tags[j].Value = value
                                    /\ db.tags[j].RecordID \in 1..Len(db.records)}}}

\* The last call on the storage and, for each record type and request ID,
\* the record of the last Save that returned no error; faulted once a
\* statement has failed.
NoGormCall == [op |-> "none", err |-> "nil", data |-> <<>>, ids |-> {}, latest |-> <<>>, faulted |-> FALSE]

gormSaved(rcd, fault, o) ==
  /\ pc = "gorm"
  /\ storage' = o.st
  /\ rec' = [NoGormCall EXCEPT
               !.op = "Save", !.err = o.err,
               !.latest = IF o.err = "nil"
                          THEN WithMember(rec.latest, <<rcd.Type, rcd.RequestID>>, rcd)
                          ELSE rec.latest,
               !.faulted = rec.faulted \/ o.err = DBFailed]
  /\ UNCHANGED <<scrubVars, inMemory, walk, routines, recorder>>

\* err := storage.Save(ctx, record)
DoSave(rcd, fault) ==
  /\ pc = "gorm"
  /\ IF storage.optimized
     THEN gormSaved(rcd, fault, gormSaveOptimized(storage, rcd, fault))
     ELSE \E order \in RangeOrders(rcd.Tags) : gormSaved(rcd, fault, gormSave(storage, rcd, order, fault))

\* data, err := storage.Load(ctx, recordType, requestID)
DoLoad(type, requestID) ==
  /\ pc = "gorm"
  /\ rec' = [NoGormCall EXCEPT !.op = "Load", !.err = gormLoad(storage, type, requestID).err,
                               !.data = gormLoad(storage, type, requestID).data,
                               !.latest = rec.latest, !.faulted = rec.faulted]
  /\ UNCHANGED <<scrubVars, inMemory, walk, routines, recorder, storage>>

\* ids, err := storage.FindByTag(ctx, key + ":" + value)
DoFind(key, value) ==
  /\ pc = "gorm"
  /\ rec' = [NoGormCall EXCEPT !.op = "FindByTag", !.ids = gormFindByTag(storage, key, value),
                               !.latest = rec.latest, !.faulted = rec.faulted]
  /\ UNCHANGED <<scrubVars, inMemory, walk, routines, recorder, storage>>

GormTypes == {RecordTypeRequest, RecordTypeResponse}
GormTags == {Nil, StrMap(<<>>, (KeyA :> <<49>>)), StrMap(<<>>, (KeyA :> <<50>>) @@ (KeyB :> <<50>>))}
GormRecords ==
  {Record(type, Nil, ReqR, payload, tags) : type \in GormTypes, payload \in Payloads, tags \in GormTags}
Faults == {"none", "record", "tags"}

InitGorm ==
  /\ scrubber = NilScrubber
  /\ options = <<>>
  /\ pc = "gorm"
  /\ call = "none"
  /\ params = <<>>
  /\ input = Nil
  /\ output = Nil
  /\ err = "nil"
  /\ argSnap = Nil
  /\ outSnap = Nil
  /\ evals = {}
  /\ routines = <<>>
  /\ recorder = <<>>
  /\ \E optimized \in BOOLEAN : storage = NewGorm(optimized)
  /\ rec = NoGormCall
  /\ inMemory = <<>>
  /\ walk = <<>>

NextGorm ==
  \/ \E rcd \in GormRecords, fault \in Faults : DoSave(rcd, fault)
  \/ \E type \in GormTypes : DoLoad(type, ReqR)
  \/ \E value \in {<<49>>, <<50>>} : DoFind(KeyA, value)

SpecGorm == InitGorm /\ [][NextGorm]_vars

\* The rows of the record type and request ID.
rowsOf(type, requestID) ==
  {i \in 1..Len(storage.records) :
     storage.records[i].Type = type /\ storage.records[i].RequestID = requestID}

\* The tags stored for the record of ID id, and the tags of a tag map.
storedTags(id) == {<<storage.tags[i].Key, storage.tags[i].Value>> :
                     i \in {j \in 1..Len(storage.tags) : storage.tags[j].RecordID = id}}
tagSet(tags) == IF tags.t = "nil" THEN {} ELSE {<<k, tags.sm[k]>> : k \in DOMAIN tags.sm}

\* C20 as stated: while every Save that reached the database succeeded, each
\* record type and request ID saved has exactly one row, with the payload of
\* the latest Save for them, and the tags stored for the row are exactly the
\* tags of that latest Save, none when it carried no tags.
C20_AsStated ==
  ~rec.faulted =>
    \A pair \in DOMAIN rec.latest :
       /\ Cardinality(rowsOf(pair[1], pair[2])) = 1
       /\ \A id \in rowsOf(pair[1], pair[2]) :
             /\ storage.records[id].Payload = rec.latest[pair].Payload
             /\ storedTags(id) = tagSet(rec.latest[pair].Tags)

\* With the Save of two transactions, Save of the request "r" with the tag
\* a=1 and then Save of "r" without tags leaves the row of the tag: FindByTag
\* of a:1 still returns request:r.
C20_StaleTags ==
  /\ storage.optimized /\ ~rec.faulted
  /\ rec.op = "FindByTag" /\ rec.ids = {typeText(RecordTypeRequest) \o Colon \o ReqR}
  /\ <<RecordTypeRequest, ReqR>> \in DOMAIN rec.latest
  /\ rec.latest[<<RecordTypeRequest, ReqR>>].Tags = Nil
  /\ rowsOf(RecordTypeRequest, ReqR) = {1}
  /\ storedTags(1) = {<<KeyA, <<49>>>>}

\* With the Save of one transaction the record, its payload and its tags are
\* those of the latest Save.
OneTransactionReplaces == ~storage.optimized => C20_AsStated

-----------------------------------------------------------------------------
(* Properties of the traversal (Spec)                                       *)

\* The field contexts of value and of everything below it, path being the
\* path of value: the fields of a map, the elements of a list of strings
\* under their index, the elements of a generic list under the path of the
\* list.
RECURSIVE ContextsBelow(_, _)
ContextsBelow(value, path) ==
  CASE value.t = "map[string]any" ->
         UNION {{FieldContext(Append(path, k), k, value.m[k])} \cup ContextsBelow(value.m[k], Append(path, k)) :
                  k \in DOMAIN value.m}
    [] value.t = "map[string]string" ->
         {FieldContext(Append(path, k), k, Str(value.sm[k])) : k \in DOMAIN value.sm}
    [] value.t = "map[string][]string" ->
         UNION {{FieldContext(Append(path, k), k, value.lm[k])} \cup ContextsBelow(value.lm[k], Append(path, k)) :
                  k \in DOMAIN value.lm}
    [] value.t = "[]string" ->
         {FieldContext(Append(path, IndexSegment(i - 1)), IndexSegment(i - 1), Str(value.sl[i])) :
            i \in 1..Len(value.sl)}
    [] value.t = "[]any" -> UNION {ContextsBelow(value.al[i], path) : i \in 1..Len(value.al)}
    [] OTHER -> {}

\* No rule was evaluated on value's fields nor below them.
NotEntered(value, path) == \A e \in evals : e.ctx \notin ContextsBelow(value, path)

\* The walk over the argument and the result side by side: a field one or
\* more rules were applied to holds what the last of them gave (its text in a
\* flat string map, its text once per element in a string-list map), and no
\* rule was evaluated below the field nor inside what the rule gave; the walk
\* goes on below a field of an object no rule was applied to.
RECURSIVE ReplacedNotEntered(_, _, _)
ReplacedNotEntered(in, out, path) ==
  CASE in.t = "map[string]any" ->
         /\ out.t = in.t /\ DOMAIN out.m = DOMAIN in.m
         /\ \A k \in DOMAIN in.m :
               /\ \E e \in evals : e.ctx = FieldContext(Append(path, k), k, in.m[k])
               /\ \A e \in evals :
                     e.ctx = FieldContext(Append(path, k), k, in.m[k])
                       => IF e.applied # <<>>
                          THEN /\ out.m[k] = e.applied[Len(e.applied)].gave
                               /\ NotEntered(in.m[k], Append(path, k))
                               /\ NotEntered(e.applied[Len(e.applied)].gave, Append(path, k))
                          ELSE ReplacedNotEntered(in.m[k], out.m[k], Append(path, k))
    [] in.t = "map[string]string" ->
         /\ out.t = in.t /\ DOMAIN out.sm = DOMAIN in.sm
         /\ \A k \in DOMAIN in.sm :
               /\ \E e \in evals : e.ctx = FieldContext(Append(path, k), k, Str(in.sm[k]))
               /\ \A e \in evals :
                     e.ctx = FieldContext(Append(path, k), k, Str(in.sm[k]))
                       => IF e.applied # <<>>
                          THEN /\ out.sm[k] = ScalarText(e.applied[Len(e.applied)].gave)
                               /\ NotEntered(e.applied[Len(e.applied)].gave, Append(path, k))
                          ELSE out.sm[k] = in.sm[k]
    [] in.t = "map[string][]string" ->
         /\ out.t = in.t /\ DOMAIN out.lm = DOMAIN in.lm
         /\ \A k \in DOMAIN in.lm :
               /\ \E e \in evals : e.ctx = FieldContext(Append(path, k), k, in.lm[k])
               /\ \A e \in evals :
                     e.ctx = FieldContext(Append(path, k), k, in.lm[k])
                       => /\ ListAsCounted(in.lm[k].sl, out.lm[k].sl, e.applied, FALSE)
                          /\ e.applied # <<>>
                               => /\ NotEntered(in.lm[k], Append(path, k))
                                  /\ NotEntered(e.applied[Len(e.applied)].gave, Append(path, k))
    [] in.t = "[]any" ->
         /\ out.t = in.t /\ Len(out.al) = Len(in.al)
         /\ \A i \in 1..Len(in.al) : ReplacedNotEntered(in.al[i], out.al[i], path)
    [] OTHER -> TRUE

\* C21: when one or more rules are applied to a field of an object, of a flat
\* string map or of a string-list map, what the last applied rule gave is the
\* field's value in the result (coerced to the element type of the map), and
\* no rule is evaluated on a field below the field's original value nor on a
\* field of the value the rule gave.
C21_ReplacedNotEntered ==
  (pc = "called" /\ call = "Scrub" /\ ~scrubber.nil) => ReplacedNotEntered(input, output, <<>>)

\* Under a rule that keeps what is under auth, before the default rule,
\* {"Auth": {"Auth": "v"}, "n": "v"} came out as it was: the rules were
\* evaluated on Auth and on n and not on Auth.Auth.
C21_Witness ==
  /\ pc = "called" /\ call = "Scrub"
  /\ scrubber.rules = <<KeepAuth>> \o defaultSensitiveRules(DefaultReplacement)
  /\ argSnap = Obj(Fresh, (Auth :> Obj(Fresh, (Auth :> Str(TextV)))) @@ (Other :> Str(TextV)))
  /\ outSnap = argSnap
  /\ {e.ctx.Path : e \in evals} = {<<Auth>>, <<Other>>}

-----------------------------------------------------------------------------
(* Rules without transform (SpecInert): rule lists over rules that have a   *)
(* matcher or none, a transform or none, and the chain flag up or down.     *)

NoApplyChained == Rule("noop-all", NilMatcher, NilScrubFunc, TRUE)
NoApplyAll == Rule("noop-all", NilMatcher, NilScrubFunc, FALSE)

InertRules == {NoApply, NoApplyChained, NoApplyAll, R1, MaskAllStop}

NextInert ==
  \/ Construct(<<WithoutDefaultRules>>)
  \/ \E r \in InertRules : DoAddRules(<<r>>)
  \/ \E x \in ChainArgs : CallScrub(x)

SpecInert == Init /\ [][NextInert]_vars

\* The Scrubber s without its rules that have no transform.
WithoutInert(s) == [s EXCEPT !.rules = SelectSeq(s.rules, LAMBDA rule : rule.Apply.f # "nil")]

\* The applied rules tr of the Scrubber s, each as the rule itself with the
\* value it saw and the value it gave.
Steps(s, tr) == [j \in 1..Len(tr) |-> [rule |-> s.rules[tr[j].rule], saw |-> tr[j].saw, gave |-> tr[j].gave]]

\* The calls of applyRules of a traversal, each with its field and its steps.
Evaluations(s, visited) == {[ctx |-> e.ctx, steps |-> Steps(s, e.applied)] : e \in visited}

\* C22: a rule without transform is inert, whether or not its matcher accepts
\* the field and whatever its chain flag: it is never among the applied rules,
\* and Scrub returns what it returns without these rules, having evaluated
\* the rules on the same fields and applied the same rules to the same values
\* -- so the working value is not changed, the field is not marked as
\* matched, the rules after it are evaluated, and a field on which only such
\* rules match is traversed as an unmatched field.
C22_InertRules ==
  (pc = "called" /\ call = "Scrub" /\ ~scrubber.nil)
    => /\ \A e \in evals : \A j \in 1..Len(e.applied) : scrubber.rules[e.applied[j].rule].Apply.f # "nil"
       /\ outSnap = DeepCopy(Scrub(WithoutInert(scrubber), input))
       /\ Evaluations(scrubber, evals)
            = Evaluations(WithoutInert(scrubber), scrubVisits(WithoutInert(scrubber), input, <<>>))

\* Under the rules noop on a (not chained), noop on every field (not
\* chained) and the mask of every field, the object {"a": "v", "n": "v"} came
\* out as {"a": "*", "n": "*"}: the mask saw "v" at both fields.
C22_Witness ==
  /\ pc = "called" /\ call = "Scrub"
  /\ scrubber.rules = <<NoApply, NoApplyAll, MaskAllStop>>
  /\ argSnap = Obj(Fresh, (KeyA :> Str(TextV)) @@ (Other :> Str(TextV)))
  /\ outSnap = Obj(Fresh, (KeyA :> Str(<<42>>)) @@ (Other :> Str(<<42>>)))
  /\ \A e \in evals : Len(e.applied) = 1 /\ e.applied[1].rule = 3 /\ e.applied[1].saw = Str(TextV)

-----------------------------------------------------------------------------
(* The traversal step by step (SpecPaths): scrubValue as the goroutine runs *)
(* it, one field at a time, with the path slices in memory.  A []string is  *)
(* a window [arr, len] on a backing array of the heap; append writes into   *)
(* the array of its argument when the array has room, and into a new array  *)
(* of twice the capacity when it has none, as the gc runtime grows a small  *)
(* slice.  A frame of the stack is one call of scrubValue: the value, the   *)
(* path, the fields still to visit, the clone under construction and the    *)
(* place of the caller's clone the result goes to.  A map is ranged over in *)
(* any order, a list by index.                                              *)

\* The nil slice.
NilSlice == [arr |-> 0, len |-> 0]

capOf(heap, sl) == IF sl.arr = 0 THEN 0 ELSE Len(heap[sl.arr])

\* The strings a slice holds now.
readSlice(heap, sl) == IF sl.arr = 0 THEN <<>> ELSE SubSeq(heap[sl.arr], 1, sl.len)

\* The capacity append gives a slice of capacity oldcap that is full.
grown(oldcap) == IF oldcap = 0 THEN 1 ELSE 2 * oldcap

\* An append that writes over the last string of a slice that is full.
appendOverLast(heap, sl, x) ==
  IF sl.arr = 0 THEN [heap |-> Append(heap, <<x>>), slice |-> [arr |-> Len(heap) + 1, len |-> 1]]
  ELSE IF sl.len < capOf(heap, sl)
  THEN [heap |-> [heap EXCEPT ![sl.arr][sl.len + 1] = x], slice |-> [arr |-> sl.arr, len |-> sl.len + 1]]
  ELSE [heap |-> [heap EXCEPT ![sl.arr][sl.len] = x], slice |-> sl]

\* append(sl, x): the heap after it and the slice it returns.
appendSlice(heap, sl, x) ==
  IF sl.len < capOf(heap, sl)
  THEN [heap |-> [heap EXCEPT ![sl.arr][sl.len + 1] = x], slice |-> [arr |-> sl.arr, len |-> sl.len + 1]]
  ELSE [heap |-> Append(heap, readSlice(heap, sl) \o <<x>>
                                \o [i \in 1..(grown(capOf(heap, sl)) - sl.len - 1) |-> <<>>]),
        slice |-> [arr |-> Len(heap) + 1, len |-> sl.len + 1]]

\* The heap after `elementPath := append(currentPath, fmt.Sprintf("[%d]", i))`
\* for the indices from i up to n - 1.
RECURSIVE elementPaths(_, _, _, _)
elementPaths(heap, currentPath, i, n) ==
  IF i >= n THEN heap
  ELSE elementPaths(appendSlice(heap, currentPath, IndexSegment(i)).heap, currentPath, i + 1, n)

\* What the range of scrubValue goes over.
Todo(value) ==
  CASE value.t = "map[string]any" -> DOMAIN value.m
    [] value.t = "map[string]string" -> DOMAIN value.sm
    [] value.t = "map[string][]string" -> DOMAIN value.lm
    [] value.t = "[]string" -> 1..Len(value.sl)
    [] value.t = "[]any" -> 1..Len(value.al)
    [] OTHER -> {}

\* cloned := make(..., len(v))
madeFor(value) ==
  CASE value.t = "[]string" -> [i \in 1..Len(value.sl) |-> <<>>]
    [] value.t = "[]any" -> [i \in 1..Len(value.al) |-> Nil]
    [] OTHER -> <<>>

\* `return cloned`
clonedValue(value, cloned) ==
  CASE value.t = "map[string]any" -> Obj(Fresh, cloned)
    [] value.t = "map[string]string" -> StrMap(Fresh, cloned)
    [] value.t = "map[string][]string" -> ListMap(Fresh, cloned)
    [] value.t = "[]string" -> StrList(Fresh, cloned)
    [] value.t = "[]any" -> List(Fresh, cloned)

\* The call scrubValue(value, path) entered, its result due at slot of the
\* caller's clone.
Frame(value, path, slot) ==
  [value |-> value, path |-> path, todo |-> Todo(value), cloned |-> madeFor(value), slot |-> slot]

\* scrubValue copies the values of these types; it returns any other as it is.
Traversed(value) == value.t \in Recognized

\* cloned[k] = v in the frame on top, field k done.
put(stack, k, v) ==
  [stack EXCEPT ![Len(stack)].todo = @ \ {k},
                ![Len(stack)].cloned = IF k \in DOMAIN @ THEN [@ EXCEPT ![k] = v] ELSE WithMember(@, k, v)]

\* Field k done, its value due from the call scrubValue(val, path).
descend(stack, k, val, path) ==
  Append([stack EXCEPT ![Len(stack)].todo = @ \ {k}], Frame(val, path, k))

\* The stack after the field k of the frame on top, of value val, at which
\* applyRules returned r and currentPath is path.
afterField(stack, type, k, val, path, r) ==
  CASE type = "map[string]any" ->
         IF r.ok THEN put(stack, k, r.value)
         ELSE IF Traversed(val) THEN descend(stack, k, val, path)
         ELSE put(stack, k, val)
    [] type = "map[string]string" -> put(stack, k, toString(IF r.ok THEN r.value ELSE val))
    [] type = "map[string][]string" ->
         put(stack, k, IF r.ok THEN toStringSlice(r.value, Len(val.sl)) ELSE StrList(Fresh, val.sl))
    [] type = "[]string" -> put(stack, k, toString(IF r.ok THEN r.value ELSE val))

\* The heap after the field: a string-list map builds a path for each element
\* of a list no rule was applied to.
heapAfterField(heap, type, val, path, r) ==
  IF type = "map[string][]string" /\ ~r.ok THEN elementPaths(heap, path, 0, Len(val.sl)) ELSE heap

\* One call of applyRules as the walk saw it: the context, the path slice,
\* and the rule list of the Scrubber at the call.
Seen(ctx, path, rules) ==
  [Path |-> ctx.Path, Key |-> ctx.Key, Value |-> ctx.Value, slice |-> path, rules |-> rules]

\* The body of the range for the field of key `key` at place k, of value val,
\* a being what `append(path, key)` made.
ranged(type, k, key, val, a) ==
  walk' = [heap |-> heapAfterField(a.heap, type, val, a.slice,
                                   applyRules(scrubber, FieldContext(readSlice(a.heap, a.slice), key, val))),
           stack |-> afterField(walk.stack, type, k, val, a.slice,
                                applyRules(scrubber, FieldContext(readSlice(a.heap, a.slice), key, val))),
           seen |-> walk.seen
                      \cup {Seen(FieldContext(readSlice(a.heap, a.slice), key, val), a.slice, scrubber.rules)}]

\* The least index still to visit.
NextIndex(todo) == CHOOSE i \in todo : \A j \in todo : i <= j

\* out := s.Scrub(x) begins: scrubValue(x, nil).
Start(x) ==
  /\ pc = "ready"
  /\ ~scrubber.nil
  /\ walk' = [heap |-> <<>>, stack |-> <<Frame(x, NilSlice, <<>>)>>, seen |-> {}]
  /\ input' = x
  /\ argSnap' = DeepCopy(x)
  /\ call' = "Scrub"
  /\ pc' = "walking"
  /\ UNCHANGED <<scrubber, options, params, output, err, outSnap, evals, routines, recVars, inMemory>>

\* One turn of the range of the call on top of the stack.
Visit ==
  /\ pc = "walking"
  /\ walk.stack[Len(walk.stack)].todo # {}
  /\ \/ /\ walk.stack[Len(walk.stack)].value.t \in MapTypes
        /\ \E k \in walk.stack[Len(walk.stack)].todo :
              ranged(walk.stack[Len(walk.stack)].value.t, k, k,
                     Elements(walk.stack[Len(walk.stack)].value)[k],
                     appendSlice(walk.heap, walk.stack[Len(walk.stack)].path, k))
     \/ /\ walk.stack[Len(walk.stack)].value.t = "[]string"
        /\ ranged("[]string", NextIndex(walk.stack[Len(walk.stack)].todo),
                  IndexSegment(NextIndex(walk.stack[Len(walk.stack)].todo) - 1),
                  Elements(walk.stack[Len(walk.stack)].value)[NextIndex(walk.stack[Len(walk.stack)].todo)],
                  appendSlice(walk.heap, walk.stack[Len(walk.stack)].path,
                              IndexSegment(NextIndex(walk.stack[Len(walk.stack)].todo) - 1)))
     \/ /\ walk.stack[Len(walk.stack)].value.t = "[]any"
        /\ walk' = [walk EXCEPT
                      !.stack = IF Traversed(walk.stack[Len(walk.stack)].value.al[NextIndex(walk.stack[Len(walk.stack)].todo)])
                                THEN descend(@, NextIndex(walk.stack[Len(walk.stack)].todo),
                                          walk.stack[Len(walk.stack)].value.al[NextIndex(walk.stack[Len(walk.stack)].todo)],
                                          walk.stack[Len(walk.stack)].path)
                                ELSE put(@, NextIndex(walk.stack[Len(walk.stack)].todo),
                                         walk.stack[Len(walk.stack)].value.al[NextIndex(walk.stack[Len(walk.stack)].todo)])]
  /\ UNCHANGED <<scrubVars, routines, recVars, inMemory>>

\* `return cloned` of the call on top of the stack: to the caller's clone, or
\* to the caller of Scrub.
Return ==
  /\ pc = "walking"
  /\ walk.stack[Len(walk.stack)].todo = {}
  /\ IF Len(walk.stack) = 1
     THEN /\ output' = clonedValue(walk.stack[1].value, walk.stack[1].cloned)
          /\ outSnap' = DeepCopy(output')
          /\ evals' = {[ctx |-> FieldContext(e.Path, e.Key, e.Value)] : e \in walk.seen}
          /\ pc' = "called"
          /\ walk' = [walk EXCEPT !.stack = <<>>]
          /\ UNCHANGED <<scrubber, options, call, params, input, err, argSnap>>
     ELSE /\ walk' = [walk EXCEPT
                        !.stack = put(SubSeq(@, 1, Len(@) - 1), walk.stack[Len(walk.stack)].slot,
                                      clonedValue(walk.stack[Len(walk.stack)].value,
                                                  walk.stack[Len(walk.stack)].cloned))]
          /\ UNCHANGED scrubVars
  /\ UNCHANGED <<routines, recVars, inMemory>>

\* v and y under a and n four objects deep; a list of strings three keys
\* deep below a generic list; a string-list map two keys deep; a flat string
\* map three keys deep; an object under a sensitive key.
Deep(inner) == Obj(Fresh, (KeyA :> inner) @@ (Other :> Str(TextV)))

PathArgs ==
  {Label(v, <<>>) : v \in
     {Deep(Deep(Deep(Deep(Str(TextY))))),
      Obj(Fresh, (Other :> List(Fresh, <<Deep(Deep(StrList(Fresh, <<TextV, TextY>>))), Str(TextV)>>))),
      Deep(Deep(ListMap(Fresh, (KeyA :> StrList(Fresh, <<TextV, TextY>>)) @@ (Other :> StrList(Fresh, <<TextV>>))))),
      Deep(Deep(Deep(StrMap(Fresh, (KeyA :> TextV) @@ (Other :> TextY))))),
      Obj(Fresh, (Auth :> Deep(Str(TextV))) @@ (Other :> Deep(Str(TextV)))),
      StrList(Fresh, <<TextV, TextY>>)}}

InitPaths ==
  /\ \E opts \in {<<>>, <<WithoutDefaultRules>>} : scrubber = NewScrubber(opts) /\ options = opts
  /\ pc = "ready"
  /\ call = "none"
  /\ params = <<>>
  /\ input = Nil
  /\ output = Nil
  /\ err = "nil"
  /\ argSnap = Nil
  /\ outSnap = Nil
  /\ evals = {}
  /\ routines = <<>>
  /\ NoRecorder

NextPaths ==
  \/ \E x \in PathArgs : Start(x)
  \/ Visit
  \/ Return

SpecPaths == InitPaths /\ [][NextPaths]_vars

\* The walk makes the calls of applyRules that scrubValue makes, and returns
\* what Scrub returns.
WalkIsScrub ==
  (pc = "called" /\ call = "Scrub")
    => /\ DeepCopy(output) = DeepCopy(Scrub(scrubber, input))
       /\ evals = {[ctx |-> e.ctx] : e \in scrubVisits(scrubber, input, <<>>)}

\* Every path handed to a rule evaluation so far was, at the evaluation,
\* the path of its field.
PathsRight ==
  \A e \in walk.seen :
     /\ e.Path # <<>>
     /\ e.Path[Len(e.Path)] = e.Key
     /\ FieldContext(e.Path, e.Key, e.Value) \in ContextsBelow(input, <<>>)

\* Every path slice handed to a rule evaluation so far still holds the path
\* of its field.
PathsKept == \A e \in walk.seen : readSlice(walk.heap, e.slice) = e.Path

-----------------------------------------------------------------------------
(* The elements of lists of strings (Spec)                                  *)

\* No rule was applied at the field ctx.
Unmatched(ctx) == \E e \in evals : e.ctx = ctx /\ e.applied = <<>>

\* The walk over the argument down to its lists of strings, below no field a
\* rule was applied to: the rules were evaluated on every element of every
\* such list, with the key [i] and the path of the list extended by [i].
RECURSIVE ElementsEvaluated(_, _)
ElementsEvaluated(in, path) ==
  CASE in.t = "map[string]any" ->
         \A k \in DOMAIN in.m :
            Unmatched(FieldContext(Append(path, k), k, in.m[k])) => ElementsEvaluated(in.m[k], Append(path, k))
    [] in.t = "map[string][]string" ->
         \A k \in DOMAIN in.lm :
            Unmatched(FieldContext(Append(path, k), k, in.lm[k])) => ElementsEvaluated(in.lm[k], Append(path, k))
    [] in.t = "[]any" -> \A i \in 1..Len(in.al) : ElementsEvaluated(in.al[i], path)
    [] in.t = "[]string" ->
         \A i \in 1..Len(in.sl) :
            \E e \in evals :
               e.ctx = FieldContext(Append(path, IndexSegment(i - 1)), IndexSegment(i - 1), Str(in.sl[i]))
    [] OTHER -> TRUE

\* C24 as stated: the rules are evaluated on every element of every list of
\* strings the traversal visits, with key [i] and the parent path extended by
\* [i]: of a list of strings at the top, of one under an object key, and of
\* each list of a string-list map whose field no rule was applied to.
C24_AsStated ==
  (pc = "called" /\ call = "Scrub" /\ ~scrubber.nil) => ElementsEvaluated(input, <<>>)

\* Under a rule that removes what is under the key [0], Scrub of
\* {"n": ["v", "y"]}, a string-list map, returned {"n": ["v", "y"]} and
\* evaluated the rules at n alone.
C24_ElementsSkipped ==
  /\ pc = "called" /\ call = "Scrub"
  /\ scrubber.rules = <<RemoveAuth>>
  /\ argSnap = ListMap(Fresh, (Other :> StrList(Fresh, <<TextV, TextY>>)))
  /\ outSnap = argSnap
  /\ {e.ctx.Path : e \in evals} = {<<Other>>}
  /\ \A e \in evals : e.applied = <<>>

\* The same rule on the list of strings ["v", "y"] itself gave ["", "y"].
ListElementsEvaluated ==
  (pc = "called" /\ call = "Scrub" /\ scrubber.rules = <<RemoveAuth>>
   /\ argSnap = StrList(Fresh, <<TextV, TextY>>))
    => /\ outSnap = StrList(Fresh, <<<<>>, TextY>>)
       /\ ElementsEvaluated(input, <<>>)

-----------------------------------------------------------------------------
(* The matchers on their own (SpecMatch): a matcher is built and called on  *)
(* one field context.                                                       *)

\* ok := matcher(ctx)
CallMatcher(matcher, ctx) ==
  /\ pc = "init"
  /\ call' = "matcher"
  /\ params' = <<matcher, ctx>>
  /\ output' = Bool(Matches(matcher, ctx))
  /\ pc' = "called"
  /\ UNCHANGED <<scrubber, options, input, err, argSnap, outSnap, evals>>
  /\ UNCHANGED others

OnA == MatchKeyInsensitive(<<KeyA>>)
HoldsV == MatchValueRegexp(LiteralRegexp(TextV))
Leaves == {OnA, HoldsV}

\* MatchAny and MatchAll of up to two matchers, nil among them; MatchNot of a
\* matcher, of nil, and of these; MatchAll of two MatchNot.
Combined ==
  {MatchAny(ms) : ms \in SeqsUpTo(Leaves \cup {NilMatcher}, 2)}
  \cup {MatchAll(ms) : ms \in SeqsUpTo(Leaves \cup {NilMatcher}, 2)}
  \cup {MatchNot(m) : m \in Leaves \cup {NilMatcher}}
  \cup {MatchNot(MatchAny(<<a, b>>)) : a \in Leaves, b \in Leaves}
  \cup {MatchAll(<<MatchNot(a), MatchNot(b)>>) : a \in Leaves, b \in Leaves}

MatchContexts == {FieldContext(<<k>>, k, Str(t)) : k \in {KeyA, Other}, t \in {TextV, TextX}}

NextMatch == \E matcher \in Combined, ctx \in MatchContexts : CallMatcher(matcher, ctx)

SpecMatch == Init /\ [][NextMatch]_vars

\* matcher(ctx) as boolean logic reads it; a nil matcher inside MatchAny or
\* MatchAll counts as nilCounts.
RECURSIVE Logical(_, _, _)
Logical(matcher, ctx, nilCounts) ==
  CASE matcher.k = "nil" -> nilCounts
    [] matcher.k = "MatchAny" -> \E i \in 1..Len(matcher.matchers) :
                                    IF matcher.matchers[i].k = "nil" THEN FALSE
                                    ELSE Logical(matcher.matchers[i], ctx, nilCounts)
    [] matcher.k = "MatchAll" -> \A i \in 1..Len(matcher.matchers) : Logical(matcher.matchers[i], ctx, nilCounts)
    [] matcher.k = "MatchNot" -> IF matcher.matcher.k = "nil" THEN FALSE
                                 ELSE ~Logical(matcher.matcher, ctx, nilCounts)
    [] matcher.k = "MatchKeyInsensitive" -> ToLower(ctx.Key) = KeyA
    [] matcher.k = "MatchValueRegexp" -> ctx.Value = Str(TextV)

\* De Morgan on the matcher called: MatchNot(MatchAny(a, b)) against
\* MatchAll(MatchNot(a), MatchNot(b)).
DeMorgan ==
  \A a \in Leaves, b \in Leaves :
     params[1] = MatchNot(MatchAny(<<a, b>>))
       => output.b = Matches(MatchAll(<<MatchNot(a), MatchNot(b)>>), params[2])

\* C25 (as amended): MatchAny is true iff one of its matchers is true, false
\* for none; MatchAll is true iff each of its matchers that is not nil is
\* true, true for none; MatchNot(m) is the negation of m, and false for nil;
\* so MatchNot(MatchAny(a, b)) is MatchAll(MatchNot(a), MatchNot(b)) for a, b
\* not nil.  A nil matcher is never true inside MatchAny and is passed over
\* inside MatchAll.
C25_Combinators ==
  (pc = "called" /\ call = "matcher")
    => /\ output.b = Logical(params[1], params[2], TRUE)
       /\ DeMorgan

\* C25 as stated: the same with a nil matcher never true inside MatchAll.
C25_AsStated ==
  (pc = "called" /\ call = "matcher")
    => /\ output.b = Logical(params[1], params[2], FALSE)
       /\ DeMorgan

\* MatchAll(key a, nil) was true at the field a.
C25_Witness ==
  /\ pc = "called" /\ call = "matcher"
  /\ params = <<MatchAll(<<OnA, NilMatcher>>), FieldContext(<<KeyA>>, KeyA, Str(TextV))>>
  /\ output = Bool(TRUE)

-----------------------------------------------------------------------------
(* MatchPathInsensitive on its own (SpecPathMatch): the matcher is built    *)
(* from a list of paths and called on one field context.                    *)

\* ok := MatchPathInsensitive(paths...)(ctx)
CallPathMatcher(paths, ctx) ==
  /\ pc = "init"
  /\ call' = "MatchPathInsensitive"
  /\ params' = <<paths, ctx>>
  /\ output' = Bool(Matches(MatchPathInsensitive(paths), ctx))
  /\ pc' = "called"
  /\ UNCHANGED <<scrubber, options, input, err, argSnap, outSnap, evals>>
  /\ UNCHANGED others

UpperA == <<65>>
Star == <<42>>
Dot == <<46>>

\* a, *, A, the empty path, a.n, *.n, A.*, a.*.n, and " a. n" with blanks
\* around its segments.
PathTexts ==
  {KeyA, Star, UpperA, <<>>,
   KeyA \o Dot \o Other, Star \o Dot \o Other, UpperA \o Dot \o Star,
   KeyA \o Dot \o Star \o Dot \o Other,
   <<32>> \o KeyA \o Dot \o <<32>> \o Other}

\* Fields one to three keys deep; a key may be empty or in upper case.
PathContexts ==
  {FieldContext(path, path[Len(path)], Str(TextV)) :
     path \in SeqsUpTo({KeyA, Other, UpperA, <<>>}, 3) \ {<<>>}}

NextPathMatch ==
  \E paths \in SeqsUpTo(PathTexts, 2), ctx \in PathContexts : CallPathMatcher(paths, ctx)

SpecPathMatch == Init /\ [][NextPathMatch]_vars

\* The segments of a pattern agree with the path one by one.
SegmentsAgree(segments, path) ==
  /\ Len(segments) = Len(path)
  /\ \A i \in 1..Len(segments) : segments[i] = Star \/ EqualFold(segments[i], path[i])

Trimmed(segments) == [i \in 1..Len(segments) |-> TrimSpace(segments[i])]

\* C26 (as amended): MatchPathInsensitive(p1, ..., pn) is true at a field iff
\* one pattern that is not blank, trimmed and split at the dots, with each
\* segment trimmed, has as many segments as the path of the field and each
\* segment is "*" or the path segment at its place, case ignored; a shorter
\* or longer pattern does not match, and "*" stands for exactly one segment.
C26_PathMatch ==
  (pc = "called" /\ call = "MatchPathInsensitive")
    => output.b = (\E i \in 1..Len(params[1]) :
                      /\ TrimSpace(params[1][i]) # <<>>
                      /\ SegmentsAgree(Trimmed(splitDots(TrimSpace(params[1][i]), <<>>)),
                                       params[2].Path))

\* C26 as stated: the patterns are split at the dots as they are given.
C26_AsStated ==
  (pc = "called" /\ call = "MatchPathInsensitive")
    => output.b = (\E i \in 1..Len(params[1]) :
                      SegmentsAgree(splitDots(params[1][i], <<>>), params[2].Path))

\* The pattern a.*.n matched the field a.A.n.
C26_Witness ==
  /\ pc = "called" /\ call = "MatchPathInsensitive"
  /\ params[1] = <<KeyA \o Dot \o Star \o Dot \o Other>>
  /\ params[2].Path = <<KeyA, UpperA, Other>>
  /\ output = Bool(TRUE)

\* The pattern " a. n" matched the field a.n.
C26_TrimmedMatch ==
  /\ pc = "called" /\ call = "MatchPathInsensitive"
  /\ params[1] = << <<32>> \o KeyA \o Dot \o <<32>> \o Other >>
  /\ params[2].Path = <<KeyA, Other>>
  /\ output = Bool(TRUE)

-----------------------------------------------------------------------------
(* PreserveLengthReplacement on its own (SpecPreserve): the transform is    *)
(* built from a replacement and applied to one value.                       *)

\* out := PreserveLengthReplacement(replacement)(FieldContext{Value: value})
CallPreserveLength(replacement, value) ==
  /\ pc = "init"
  /\ params' = <<replacement>>
  /\ Returned("PreserveLengthReplacement", value,
              Transform(PreserveLengthReplacement(replacement), FieldContext(<<>>, <<>>, value)),
              "nil", {})

\* The empty replacement, #, [R], one that begins with e acute, one that
\* begins with U+FFFD.
Replacements == {<<>>, <<35>>, <<91, 82, 93>>, <<233, 35>>, <<RuneError, 35>>}

\* nil, texts from the empty one on, numbers, truth values, a list.
PreserveValues ==
  {Nil, Num(0), Num(12), Bool(TRUE), Bool(FALSE), StrList(<<>>, <<TextV, TextX>>)}
  \cup {Str(t) : t \in SeqsUpTo({97, 233}, MaxLen + 1)}

NextPreserve ==
  \E replacement \in Replacements, value \in PreserveValues :
     CallPreserveLength(replacement, value)

SpecPreserve == Init /\ [][NextPreserve]_vars

\* The mask of a replacement as the claim reads it: its first code point,
\* '*' for the empty replacement.
FirstOf(replacement) == IF replacement = <<>> THEN 42 ELSE Head(replacement)

\* out is a text of n code points, each of them c.
RepeatsOf(out, c, n) ==
  /\ out.t = "string"
  /\ Len(out.s) = n
  /\ \A i \in 1..Len(out.s) : out.s[i] = c

\* C27 (as amended): PreserveLengthReplacement(r) applied to a value that is
\* not nil and whose rendering is not empty returns a text with as many code
\* points as the rendering, each of them the first code point of r, '*' when
\* r is empty or begins with U+FFFD; applied to nil or to a value whose
\* rendering is empty it returns r itself, "*" when r is empty.
C27_PreserveLength ==
  (pc = "called" /\ call = "PreserveLengthReplacement")
    => IF input.t = "nil" \/ Sprint(input) = <<>>
       THEN output = Str(IF params[1] = <<>> THEN <<42>> ELSE params[1])
       ELSE RepeatsOf(output,
                      IF FirstOf(params[1]) = RuneError THEN 42 ELSE FirstOf(params[1]),
                      Len(Sprint(input)))

\* C27 as stated: whatever the value, the result has the length of the
\* rendering and repeats the first code point of r.
C27_AsStated ==
  (pc = "called" /\ call = "PreserveLengthReplacement")
    => RepeatsOf(output, FirstOf(params[1]), Len(Sprint(input)))

\* The replacement [R] on the number 12 gave "[[".
C27_Witness ==
  /\ pc = "called" /\ call = "PreserveLengthReplacement"
  /\ params = << <<91, 82, 93>> >>
  /\ input = Num(12)
  /\ output = Str(<<91, 91>>)

\* The replacement [R] on nil gave "[R]", three code points for the five of
\* <nil>.
C27_WholeReplacement ==
  /\ pc = "called" /\ call = "PreserveLengthReplacement"
  /\ params = << <<91, 82, 93>> >>
  /\ input = Nil
  /\ output = Str(<<91, 82, 93>>)

-----------------------------------------------------------------------------
(* A recorder with a Scrubber bound to it (SpecBound): the stub of the      *)
(* tests behind New(storage, WithScrubber(scrubber, opts...)).              *)

BindingOptions ==
  {<<>>, <<ScrubberFailOnError>>, <<ScrubberSkipTags>>, <<ScrubberFailOnError, ScrubberSkipTags>>}

\* rec := New(storage, WithScrubber(scrubber, options...))
InitBound ==
  /\ scrubber \in {NewScrubber(<<>>), NewScrubber(<<WithoutDefaultRules>>)}
  /\ options \in BindingOptions
  /\ pc = "recorder"
  /\ call = "none"
  /\ params = <<>>
  /\ input = Nil
  /\ output = Nil
  /\ err = "nil"
  /\ argSnap = Nil
  /\ outSnap = Nil
  /\ evals = {}
  /\ routines = <<>>
  /\ storage \in StubStorages
  /\ recorder = WithScrubber(scrubber, options)
  /\ rec = NoCall
  /\ inMemory = <<>>
  /\ walk = <<>>

AuthPayload == Marshal(Obj(Fresh, (AuthKey :> Str(TextV))))        \* {"auth":"v"}
BrokenPayload == <<123>>                                           \* {

\* Nothing, a blank, a document with a sensitive key, a number, a document
\* cut short.
BoundPayloads == {<<>>, <<32>>, AuthPayload, <<49>>, BrokenPayload}
BoundTags == {Nil, StrMap(<<>>, (AuthKey :> TextV)), StrMap(<<>>, (Other :> TextV))}
BoundErrs == {Nil, Str(<<101>>), Str(AuthPayload)}
BoundMetrics == {Nil, StrMap(<<>>, (AuthKey :> TextV))}

NextBound ==
  \/ \E r \in RequestIDs, d \in BoundPayloads, t \in BoundTags : DoRecordRequest(Nil, r, d, t)
  \/ \E r \in RequestIDs, d \in BoundPayloads, t \in BoundTags : DoRecordResponse(Nil, r, d, t)
  \/ \E r \in RequestIDs, e \in BoundErrs, t \in BoundTags : DoRecordError(Nil, r, e, t)
  \/ \E r \in RequestIDs, m \in BoundMetrics, t \in BoundTags : DoRecordMetrics(Nil, r, m, t)

SpecBound == InitBound /\ [][NextBound]_vars

\* The payload of the call: the request or response, the text of the error,
\* the metrics as JSON.
PayloadGiven ==
  CASE rec.op \in {"RecordRequest", "RecordResponse"} -> rec.arg
    [] rec.op = "RecordError" -> IF rec.arg.t = "nil" THEN <<>> ELSE rec.arg.s
    [] rec.op = "RecordMetrics" -> IF rec.arg.t = "nil" THEN <<>> ELSE Marshal(genericOf(rec.arg))

\* The call passed the validation of its arguments.
PassedValidation ==
  /\ rec.op \in RecordOps
  /\ rec.requestID # <<>>
  /\ CASE rec.op \in {"RecordRequest", "RecordResponse"} -> rec.arg # <<>>
       [] rec.op = "RecordError" -> rec.arg.t # "nil"
       [] rec.op = "RecordMetrics" -> rec.arg.t # "nil" /\ DOMAIN rec.arg.sm # {}

\* The same string map, wherever it is held.
SameTags(a, b) == a.t = b.t /\ (a.t # "nil" => a.sm = b.sm)

\* The option was given to WithScrubber.
Given(opt) == \E i \in 1..Len(options) : options[i] = opt

\* What was handed to Save, sanitized being ScrubJSON(payload).
HandedOn(payload, sanitized, failOnError) ==
  IF sanitized.err = "nil"
  THEN rec.saved # NotSaved /\ rec.saved.Payload = BytesOf(sanitized.out)
  ELSE IF failOnError
  THEN rec.saved = NotSaved /\ rec.err = <<"scrub payload", sanitized.err>>
  ELSE rec.saved # NotSaved /\ rec.saved.Payload = payload /\ rec.err = storage.saveErr

\* C28: with a scrubber bound by WithScrubber, a Record* call that passes
\* validation hands ScrubJSON(payload) to Storage.Save when ScrubJSON
\* succeeds; when it fails, the call saves the payload as it was and reports
\* no scrub error without ScrubberFailOnError, and returns the error without
\* calling Save with it.  The tags handed to Save are ScrubStringMap(tags),
\* and the tags as given with ScrubberSkipTags.
C28_BoundScrubber ==
  PassedValidation
    => /\ HandedOn(PayloadGiven, ScrubJSON(scrubber, Bytes(Fresh, PayloadGiven)),
                   Given(ScrubberFailOnError))
       /\ rec.saved # NotSaved
            => SameTags(rec.savedTags,
                        IF Given(ScrubberSkipTags) THEN rec.tagsSnap
                        ELSE ScrubStringMap(scrubber, rec.tagsSnap))

\* RecordRequest of {"auth":"v"} with the tag auth=v saved
\* {"auth":"[REDACTED]"} with the tag auth=[REDACTED].
C28_Witness ==
  /\ rec.op = "RecordRequest"
  /\ rec.arg = AuthPayload
  /\ rec.saved # NotSaved
  /\ rec.saved.Payload = Marshal(Obj(Fresh, (AuthKey :> Str(DefaultReplacement))))
  /\ rec.savedTags.t # "nil"
  /\ rec.savedTags.sm = (AuthKey :> DefaultReplacement)
  /\ rec.err = "nil"

\* With ScrubberFailOnError, RecordRequest of a document cut short returned
\* the decode error and saved nothing.
C28_Failed ==
  /\ rec.op = "RecordRequest"
  /\ rec.requestID # <<>>
  /\ rec.arg = BrokenPayload
  /\ Given(ScrubberFailOnError)
  /\ rec.saved = NotSaved
  /\ rec.err = <<"scrub payload", DecodeError>>

-----------------------------------------------------------------------------
(* The retry loop of the GORM Save (SpecRetry), step by step: the attempts  *)
(* of saveWithOptimizedTransaction, whose work on the tables is that of     *)
(* SpecGorm, answer with nil or with an error of the database; between two  *)
(* attempts the call waits for the timer or for the end of its context.     *)
(* storage holds the two counters of the package, rec the call under way.   *)

MaxSaves == 2       \* calls of Save in a behaviour

\* strings.Contains(s, substr)
Contains(s, substr) ==
  \E i \in 0..(Len(s) - Len(substr)) : SubSeq(s, i + 1, i + Len(substr)) = substr

\* An isDeadlockError that takes every error for a deadlock.
isAnyError(error) == error.t # "nil"

\* isDeadlockError(err): err is Nil or Str(err.Error()).
isDeadlockError(error) ==
  /\ error.t # "nil"
  /\ \/ Contains(ToLower(error.s), <<101, 114, 114, 111, 114, 32, 49, 50, 49, 51>>)      \* error 1213
     \/ Contains(ToLower(error.s), <<100, 101, 97, 100, 108, 111, 99, 107, 32, 102, 111, 117, 110, 100, 32, 119, 104, 101, 110, 32, 116, 114, 121, 105, 110, 103, 32, 116, 111, 32, 103, 101, 116, 32, 108, 111, 99, 107>>)     \* deadlock found when trying to get lock
     \/ Contains(ToLower(error.s), <<100, 101, 97, 100, 108, 111, 99, 107>>)   \* deadlock
     \/ Contains(ToLower(error.s), <<108, 111, 99, 107, 32, 119, 97, 105, 116, 32, 116, 105, 109, 101, 111, 117, 116>>)        \* lock wait timeout
     \/ Contains(ToLower(error.s), <<101, 114, 114, 111, 114, 32, 49, 50, 48, 53>>)      \* error 1205

\* calculateAdaptiveRetries: deadlockRate > 0.1 is 10 * deadlocks >
\* deadlocks + successes, deadlockRate > 0.05 is 20 * deadlocks > the same.
calculateAdaptiveRetries(st) ==
  IF st.successCounter = 0 THEN 5
  ELSE IF 10 * st.deadlockCounter > st.deadlockCounter + st.successCounter THEN 8
  ELSE IF 20 * st.deadlockCounter > st.deadlockCounter + st.successCounter THEN 6
  ELSE 3

PayloadEmpty == Str(<<103, 111, 114, 109, 32, 114, 101, 99, 111, 114, 100, 101, 114, 58, 32, 112, 97, 121, 108, 111, 97, 100, 32, 99, 97, 110, 110, 111, 116, 32, 98, 101, 32, 101, 109, 112, 116, 121>>)                    \* gorm recorder: payload cannot be empty
ContextCanceled == Str(<<99, 111, 110, 116, 101, 120, 116, 32, 99, 97, 110, 99, 101, 108, 101, 100>>)               \* context canceled

\* fmt.Errorf("gorm recorder: failed after %d retries due to deadlocks: %w", maxRetries, lastErr)
FailedAfter(maxRetries, lastErr) == [t |-> "wrapped", retries |-> maxRetries, wraps |-> lastErr]

NoSave ==
  [op |-> "none", pc |-> "idle", attempt |-> 0, maxRetries |-> 0, lastErr |-> Nil, err |-> Nil,
   ctxDone |-> FALSE, attempts |-> 0, last |-> Nil, retried |-> {}, saves |-> 0]

\* The call returns error.
returning(error) == [rec EXCEPT !.pc = "returned", !.err = error]

\* err := storage.Save(ctx, record), up to the first attempt; done tells
\* whether the context is done already.
SaveBegin(payload, done) ==
  /\ pc = "retry"
  /\ rec.pc \in {"idle", "returned"}
  /\ rec.saves < MaxSaves
  /\ rec' = IF Len(payload) = 0
            THEN [NoSave EXCEPT !.op = "Save", !.pc = "returned", !.err = PayloadEmpty,
                                !.ctxDone = done, !.saves = rec.saves + 1]
            ELSE [NoSave EXCEPT !.op = "Save", !.pc = "attempt",
                                !.maxRetries = calculateAdaptiveRetries(storage),
                                !.ctxDone = done, !.saves = rec.saves + 1]
  /\ UNCHANGED <<scrubVars, inMemory, walk, routines, recorder, storage>>

\* The loop after `err := s.saveWithOptimizedTransaction(ctx, record)` gave
\* error, deadlock being isDeadlockError(err); `continue` ends the loop when
\* attempt has reached maxRetries.
afterAttempt(error, deadlock) ==
  IF error.t = "nil" THEN returning(Nil)
  ELSE IF ~deadlock THEN returning(error)
  ELSE IF rec.attempt + 1 > rec.maxRetries
  THEN [returning(FailedAfter(rec.maxRetries, error)) EXCEPT !.lastErr = error]
  ELSE [rec EXCEPT !.pc = "backoff", !.attempt = @ + 1, !.lastErr = error]

\* One turn of the loop from the attempt on.  attempts counts the attempts
\* of the call and last is what the last one gave.
Attempt(error) ==
  /\ pc = "retry"
  /\ rec.pc = "attempt"
  /\ rec' = [afterAttempt(error, isDeadlockError(error)) EXCEPT !.attempts = @ + 1, !.last = error]
  /\ storage' = IF error.t = "nil" THEN [storage EXCEPT !.successCounter = @ + 1]
                ELSE IF isDeadlockError(error) THEN [storage EXCEPT !.deadlockCounter = @ + 1]
                ELSE storage
  /\ UNCHANGED <<scrubVars, inMemory, walk, routines, recorder>>

\* case <-time.After(delay): the context is not done when the timer fires.
\* retried holds what the attempts gave that another attempt followed.
TimerFires ==
  /\ pc = "retry"
  /\ rec.pc = "backoff"
  /\ ~rec.ctxDone
  /\ rec' = [rec EXCEPT !.pc = "attempt", !.retried = @ \cup {rec.last}]
  /\ UNCHANGED <<scrubVars, inMemory, walk, routines, recorder, storage>>

\* case <-ctx.Done(): return ctx.Err()
ContextDone ==
  /\ pc = "retry"
  /\ rec.pc = "backoff"
  /\ rec.ctxDone
  /\ rec' = returning(ContextCanceled)
  /\ UNCHANGED <<scrubVars, inMemory, walk, routines, recorder, storage>>

\* The caller cancels the context while the call is under way.
Cancel ==
  /\ pc = "retry"
  /\ rec.pc \in {"attempt", "backoff"}
  /\ ~rec.ctxDone
  /\ rec' = [rec EXCEPT !.ctxDone = TRUE]
  /\ UNCHANGED <<scrubVars, inMemory, walk, routines, recorder, storage>>

Deadlock1213 == Str(<<69, 114, 114, 111, 114, 32, 49, 50, 49, 51, 58, 32, 68, 101, 97, 100, 108, 111, 99, 107, 32, 102, 111, 117, 110, 100>>)                     \* Error 1213: Deadlock found
LockWait1205 == Str(<<76, 111, 99, 107, 32, 119, 97, 105, 116, 32, 116, 105, 109, 101, 111, 117, 116, 32, 101, 120, 99, 101, 101, 100, 101, 100>>)                     \* Lock wait timeout exceeded
Duplicate == Str(<<68, 117, 112, 108, 105, 99, 97, 116, 101, 32, 101, 110, 116, 114, 121>>)                          \* Duplicate entry

AttemptErrors == {Nil, Deadlock1213, LockWait1205, Duplicate}

\* The counters of the package before the first call: no Save yet, one
\* success, a success and a deadlock, nine successes and a deadlock.
InitRetry ==
  /\ scrubber = NilScrubber
  /\ options = <<>>
  /\ pc = "retry"
  /\ call = "none"
  /\ params = <<>>
  /\ input = Nil
  /\ output = Nil
  /\ err = "nil"
  /\ argSnap = Nil
  /\ outSnap = Nil
  /\ evals = {}
  /\ routines = <<>>
  /\ recorder = <<>>
  /\ storage \in {[successCounter |-> c[1], deadlockCounter |-> c[2]] :
                    c \in {<<0, 0>>, <<1, 0>>, <<1, 1>>, <<9, 1>>}}
  /\ rec = NoSave
  /\ inMemory = <<>>
  /\ walk = <<>>

AttemptStep == \E error \in AttemptErrors : Attempt(error)

NextRetry ==
  \/ \E payload \in {<<>>, <<49>>}, done \in BOOLEAN : SaveBegin(payload, done)
  \/ AttemptStep
  \/ TimerFires
  \/ ContextDone
  \/ Cancel

\* An attempt returns, the timer fires, and a done context is seen.
SpecRetry ==
  /\ InitRetry
  /\ [][NextRetry]_vars
  /\ WF_vars(AttemptStep) /\ WF_vars(TimerFires) /\ WF_vars(ContextDone)

\* The errors of a deadlock and of a lock wait timeout.
DeadlockErrors == {Deadlock1213, LockWait1205}

\* What the call returned, by the attempts it made.
ReturnedRight ==
  \/ rec.attempts = 0 /\ rec.err \in {PayloadEmpty, ContextCanceled}
  \/ /\ rec.attempts > 0
     /\ CASE rec.last = Nil -> rec.err = Nil
          [] rec.last \notin DeadlockErrors -> rec.err = rec.last
          [] rec.attempts = rec.maxRetries + 1 -> rec.err = FailedAfter(rec.maxRetries, rec.last)
          [] OTHER -> rec.err = ContextCanceled /\ rec.ctxDone

RetrySafety ==
  /\ rec.attempts <= rec.maxRetries + 1
  /\ rec.retried \subseteq DeadlockErrors
  /\ rec.pc = "attempt" => rec.attempts <= rec.maxRetries
  /\ rec.pc = "backoff" => rec.last \in DeadlockErrors
  /\ rec.pc = "backoff" /\ rec.ctxDone => ENABLED ContextDone /\ ~ENABLED TimerFires
  /\ rec.pc = "returned" => ReturnedRight

\* C29: the retrying Save terminates after at most maxRetries + 1 attempts;
\* it returns nil at the first attempt that succeeds, returns the error of
\* an attempt at once when it is not a deadlock or lock wait timeout, makes
\* another attempt only after such an error, returns the error of the
\* context when the context is done during a backoff wait, and after
\* maxRetries + 1 deadlocks returns an error that wraps the last of them.
C29_RetryTerminates ==
  /\ []RetrySafety
  /\ (rec.pc \in {"attempt", "backoff"}) ~> (rec.pc = "returned")

\* Six attempts with maxRetries = 5 each met a deadlock, and Save returned
\* the error that wraps the last one.
C29_Witness ==
  /\ rec.pc = "returned"
  /\ rec.maxRetries = 5
  /\ rec.attempts = 6
  /\ rec.err = FailedAfter(5, LockWait1205)

-----------------------------------------------------------------------------
(* AddRules beside a traversal (SpecBeside): one goroutine runs Scrub step  *)
(* by step while another calls AddRules on the same Scrubber.  Nothing      *)
(* orders the store of s.rules and the reads of it in applyRules.  params   *)
(* is the list of the calls of AddRules: the rule list each found, the      *)
(* rules it was given, and whether it has returned.                         *)

MaxAppends == 2     \* calls of AddRules in a behaviour

\* A call of AddRules has made the longer list and has not stored it yet.
Storing == params # <<>> /\ ~params[Len(params)].stored

\* s.AddRules(rules...) up to the store of s.rules; the call returns at once
\* on a nil Scrubber and without rules.
BeginAddRules(rules) ==
  /\ pc \in {"ready", "walking", "called"}
  /\ ~Storing
  /\ Len(params) < MaxAppends
  /\ params' = Append(params, [before |-> scrubber.rules, added |-> rules,
                               stored |-> scrubber.nil \/ Len(rules) = 0])
  /\ UNCHANGED <<scrubber, options, pc, call, input, output, err, argSnap, outSnap, evals>>
  /\ UNCHANGED others

\* s.rules = append(s.rules, rules...): the store.
StoreRules ==
  /\ Storing
  /\ scrubber' = AddRules(scrubber, params[Len(params)].added)
  /\ params' = [params EXCEPT ![Len(params)].stored = TRUE]
  /\ UNCHANGED <<options, pc, call, input, output, err, argSnap, outSnap, evals>>
  /\ UNCHANGED others

\* `range s.rules` reads the slice while it is stored: with the new length
\* over the old array the loop runs past the rules, and the traversal ends as
\* the build has it; Panic stands for these ends.
TornRead ==
  /\ pc = "walking"
  /\ Storing
  /\ walk.stack[Len(walk.stack)].todo # {}
  /\ walk.stack[Len(walk.stack)].value.t # "[]any"
  /\ output' = Panic
  /\ pc' = "called"
  /\ walk' = [walk EXCEPT !.stack = <<>>]
  /\ UNCHANGED <<scrubber, options, call, params, input, err, argSnap, outSnap, evals>>
  /\ UNCHANGED <<routines, recVars, inMemory>>

BesideArgs ==
  {Label(v, <<>>) : v \in
     {Obj(Fresh, (KeyA :> Str(TextV)) @@ (Other :> Str(TextV))),
      Obj(Fresh, (Other :> Obj(Fresh, (KeyA :> Str(TextV)))) @@ (Auth :> Str(TextV)))}}

AddedRules == {<<>>, <<R1>>, <<MaskAllStop, R1>>}

InitBeside ==
  /\ \/ scrubber = NilScrubber /\ options = <<>>
     \/ \E opts \in {<<>>, <<WithoutDefaultRules>>} : scrubber = NewScrubber(opts) /\ options = opts
  /\ pc = "ready"
  /\ call = "none"
  /\ params = <<>>
  /\ input = Nil
  /\ output = Nil
  /\ err = "nil"
  /\ argSnap = Nil
  /\ outSnap = Nil
  /\ evals = {}
  /\ routines = <<>>
  /\ NoRecorder

NextBeside ==
  \/ \E x \in BesideArgs : Start(x)
  \/ Visit
  \/ Return
  \/ \E rules \in AddedRules : BeginAddRules(rules)
  \/ StoreRules
  \/ TornRead

SpecBeside == InitBeside /\ [][NextBeside]_vars

\* The rules that the calls of the list have appended.
RECURSIVE Appended(_)
Appended(calls) ==
  IF calls = <<>> THEN <<>>
  ELSE Appended(SubSeq(calls, 1, Len(calls) - 1))
       \o (IF calls[Len(calls)].stored THEN calls[Len(calls)].added ELSE <<>>)

\* The rule list after the first n calls of AddRules.
RulesAfter(n) == NewScrubber(options).rules \o Appended(SubSeq(params, 1, n))

\* C30: AddRules appends its rules at the end of the rule list, keeping the
\* earlier rules and their order, and does nothing on a nil Scrubber or
\* without rules.  No lock keeps it from running beside a traversal: the
\* store is enabled while Scrub is under way, and each field of the traversal
\* is evaluated against the list as a call of AddRules left it, so that one
\* traversal can evaluate some fields against the list before an append and
\* others against the list after it.
C30_AddRules ==
  /\ scrubber.nil => scrubber = NilScrubber
  /\ ~scrubber.nil => scrubber.rules = RulesAfter(Len(params))
  /\ ~scrubber.nil => \A n \in 1..Len(params) : params[n].before = RulesAfter(n - 1)
  /\ pc = "walking" /\ Storing => ENABLED StoreRules
  /\ pc = "walking" /\ ~Storing /\ Len(params) < MaxAppends
       => \A rules \in AddedRules : ENABLED BeginAddRules(rules)
  /\ pc \in {"walking", "called"}
       => \A e \in walk.seen : \E n \in 0..Len(params) : e.rules = RulesAfter(n)

\* One traversal of {"a": "v", "n": "v"} evaluated one field against the
\* default rules and the other against the default rules followed by R1.
C30_Witness ==
  /\ pc = "called"
  /\ call = "Scrub"
  /\ options = <<>>
  /\ output # Panic
  /\ \E e, f \in walk.seen :
        /\ e.Path # f.Path
        /\ e.rules = NewScrubber(<<>>).rules
        /\ f.rules = NewScrubber(<<>>).rules \o <<R1>>

====
